---------------------------- MODULE Spec2Model ----------------------------
(***************************************************************************)
(* A model of restic's archiver (internal/archiver/archiver.go).           *)
(*                                                                         *)
(* The walker (Snapshot -> SaveTree -> Save -> SaveDir) is a single        *)
(* goroutine; it is modelled as a stack machine, one frame per active      *)
(* SaveTree / Save / SaveDir call.  The FileSaver pool resolves file       *)
(* futures concurrently with the walker.  The repository is a              *)
(* content-addressed store: the ID of a blob is its content.               *)
(***************************************************************************)
EXTENDS Integers, Sequences, FiniteSets, Bags, TLC

VARIABLES
    fsys,       \* the filesystem: path -> entry
    targets,    \* the targets handed to Snapshot (raw strings, as components)
    opts,       \* the archiver's configuration: Error hook, Select, WithAtime
    run,        \* number of the current Snapshot call (1 or 2)
    parent,     \* opts.ParentSnapshot of the current call
    spc,        \* position of Snapshot: its next step
    stack,      \* the walker's call stack below Snapshot
    ret,        \* the value returned by the call that has just finished
    jobs,       \* the FileSaver's jobs, by snapshot path
    queue,      \* snapshot paths of the jobs no worker has taken yet
    handles,    \* the file handles Save opened: snapshot path -> Close calls
    index,      \* the blobs the repository holds
    snapshots,  \* the snapshot objects the repository holds
    result,     \* what each finished Snapshot call returned
    commits,    \* the commit steps the current call has executed
    stored,     \* the trees saved by each call, with their snapshot path
    items,      \* the CompleteItem calls made
    calls,      \* the callbacks invoked, a bag: StartFile, CompleteItem, CompleteBlob
    gate,       \* the calls of the Error hook and what it returned
    reused,     \* the files whose previous node was reused
    faults,     \* the failures the environment has produced
    cancelled,  \* whether the caller's context is cancelled
    fcIn,       \* fileChanged's arguments (change-detector specification)
    fcOut,      \* fileChanged's result
    optIn,      \* the Options handed to New
    options,    \* arch.Options
    ncpu,       \* runtime.NumCPU()
    arch,       \* the Archiver: which of its fields are set, and WithAtime
    blobs       \* the BlobSaver: its queue, its bound, the blobs in work

vars == << fsys, targets, opts, run, parent, spc, stack, ret, jobs, queue,
           handles, index, snapshots, result, commits, stored, items, calls, gate,
           reused, faults, cancelled, fcIn, fcOut, optIn, options, ncpu, arch, blobs >>

-----------------------------------------------------------------------------
(* Bounds of the model.                                                    *)

\* how many failures the environment produces in one behaviour
MaxFaults == 2

\* the largest timestamp / size / inode the change-detector inputs take
MaxStamp == 2

-----------------------------------------------------------------------------
(* Names, paths and the filesystem.                                        *)

\* the names that occur, in bytewise order
Names == << "a", "b", "d", "h", "l", "s", "u" >>

Rank(n) == CHOOSE i \in 1..Len(Names) : Names[i] = n

\* bytewise comparison of two names (Go's < on strings)
NameLess(x, y) == Rank(x) < Rank(y)

Last(p) == p[Len(p)]

IsPrefix(p, q) == Len(p) <= Len(q) /\ SubSeq(q, 1, Len(p)) = p

\* sort.Sort(sort.StringSlice(entries)): the names of S in ascending order
RECURSIVE SortNames(_)
SortNames(S) ==
    IF S = {} THEN << >>
    ELSE LET m == CHOOSE x \in S : \A y \in S : y = x \/ NameLess(x, y)
         IN  << m >> \o SortNames(S \ {m})

File(ino, data) ==
    [type |-> "file", mtime |-> 1, atime |-> 2, size |-> Len(data),
     extsize |-> Len(data), inode |-> ino, data |-> data]

Other(tpe, ino) ==
    [type |-> tpe, mtime |-> 1, atime |-> 2, size |-> 0, extsize |-> 0,
     inode |-> ino, data |-> << >>]

\* the working directory of the process
Cwd == << "h" >>

\* the filesystem every behaviour starts from
InitFS ==
    (<< "h" >> :> Other("dir", 1)) @@
    (<< "h", "d" >> :> Other("dev", 7)) @@
    (<< "h", "u" >> :> Other("dir", 2)) @@
    (<< "h", "u", "a" >> :> File(3, << 1, 2 >>)) @@
    (<< "h", "u", "b" >> :> Other("dir", 4)) @@
    (<< "h", "u", "l" >> :> Other("symlink", 5)) @@
    (<< "h", "u", "s" >> :> Other("socket", 6))

\* a target string: absolute or relative, and its components
Target(abs, pc) == [abs |-> abs, pc |-> pc]

\* the target lists Snapshot is called with
TargetLists ==
    { << Target(TRUE, << "h", "u" >>) >>,
      << Target(TRUE, << "h" >>) >>,
      << Target(FALSE, << "u", "a" >>) >>,
      << Target(FALSE, << "u", "a" >>), Target(FALSE, << "u", ".", "b" >>) >>,
      << Target(FALSE, << "." >>) >> }

\* FS.Abs
Abs(t) == IF t.abs THEN t.pc ELSE Cwd \o t.pc

\* FS.Clean: "." components are resolved lexically
Clean(t) == [abs |-> t.abs, pc |-> SelectSeq(t.pc, LAMBDA c : c # ".")]

\* FS.Join(target, name)
Join(t, name) == [abs |-> t.abs, pc |-> t.pc \o << name >>]

\* the os.FileInfo of a path
FileInfo(p) ==
    [name |-> Last(p), type |-> fsys[p].type, mtime |-> fsys[p].mtime,
     atime |-> fsys[p].atime, size |-> fsys[p].size,
     extsize |-> fsys[p].extsize, inode |-> fsys[p].inode]

NoFI == [type |-> "nil"]

\* the sorted names of a directory's entries
readdirnames(dir) ==
    SortNames({ Last(p) : p \in { q \in DOMAIN fsys :
                                   Len(q) = Len(dir) + 1 /\ IsPrefix(dir, q) } })


-----------------------------------------------------------------------------
(* Errors, content IDs, nodes and trees.                                   *)

NoErr == [kind |-> "nil"]

\* an error of one kind raised for one path
Err(kind, at) == [kind |-> kind, at |-> at]

\* context.Canceled: one value, carrying no path
CancelErr == [kind |-> "cancel"]

NoID == [kind |-> "none"]

\* the repository's ID of a blob: the hash of its content (injective)
BlobID(kind, content) == [kind |-> kind, val |-> content]

NoNode == [type |-> "nil"]

\* the Archiver after New and the caller's settings: Repo, Select and FS
\* are set or nil, the savers are nil until runWorkers, WithAtime
NewArchiver(repo, sel, fs, atime) ==
    [Repo |-> repo, Select |-> sel, FS |-> fs, blobSaver |-> FALSE,
     fileSaver |-> FALSE, WithAtime |-> atime]

\* a BlobSaver with nothing queued and nothing in work
NoBlobs == [cap |-> 0, fcap |-> 0, queue |-> << >>, work |-> {}]

NoTree == [ok |-> FALSE]

\* restic.NewTree()
NewResticTree == [ok |-> TRUE, nodes |-> << >>]

ZeroStats == [DataBlobs |-> 0, DataSize |-> 0, TreeBlobs |-> 0, TreeSize |-> 0]

AddStats(s, other) ==
    [DataBlobs |-> s.DataBlobs + other.DataBlobs,
     DataSize  |-> s.DataSize + other.DataSize,
     TreeBlobs |-> s.TreeBlobs + other.TreeBlobs,
     TreeSize  |-> s.TreeSize + other.TreeSize]

\* nodeFromFileInfo: the node of a FileInfo; the access time is kept only
\* with WithAtime
nodeFromFileInfo(filename, fi) ==
    [name |-> fi.name, type |-> fi.type, mtime |-> fi.mtime,
     atime |-> IF arch.WithAtime THEN fi.atime ELSE fi.mtime,
     size |-> IF fi.type = "file" THEN fi.size ELSE 0,
     inode |-> fi.inode, content |-> << >>, subtree |-> NoID]

\* Tree.Find: the node of that name, nil for a nil tree or an unknown name
Find(tree, name) ==
    IF ~tree.ok THEN NoNode
    ELSE LET hits == { i \in 1..Len(tree.nodes) : tree.nodes[i].name = name }
         IN  IF hits = {} THEN NoNode ELSE tree.nodes[CHOOSE i \in hits : TRUE]

\* an Insert that puts the node at the end
InsertAtEnd(tree, node) ==
    IF \E i \in 1..Len(tree.nodes) : tree.nodes[i].name = node.name
    THEN [err |-> Err("insert", << node.name >>), tree |-> tree]
    ELSE [err |-> NoErr,
          tree |-> [ok |-> TRUE, nodes |-> Append(tree.nodes, node)]]

\* Tree.Insert: the node is put at its place in name order; a name that is
\* already there is an error
Insert(tree, node) ==
    IF \E i \in 1..Len(tree.nodes) : tree.nodes[i].name = node.name
    THEN [err |-> Err("insert", << node.name >>), tree |-> tree]
    ELSE LET k == Cardinality({ i \in 1..Len(tree.nodes) :
                                  NameLess(tree.nodes[i].name, node.name) })
         IN  [err |-> NoErr,
              tree |-> [ok |-> TRUE,
                        nodes |-> SubSeq(tree.nodes, 1, k) \o << node >> \o
                                  SubSeq(tree.nodes, k + 1, Len(tree.nodes))]]

\* the length of a tree's encoding: json.Marshal and a newline
EncLen(tree) == Len(tree.nodes) + 1

-----------------------------------------------------------------------------
(* The change detector.                                                    *)

\* fileChanged with the check of the extended-stat size left out
fileChangedNoExtSize(fi, node) ==
    IF node = NoNode THEN TRUE
    ELSE IF node.type # "file" THEN TRUE
    ELSE IF fi.mtime # node.mtime THEN TRUE
    ELSE IF fi.size # node.size THEN TRUE
    ELSE IF node.inode # fi.inode THEN TRUE
    ELSE FALSE

\* fileChanged: TRUE if the file's content has changed since the node was
\* created
fileChanged(fi, node) ==
    IF node = NoNode THEN TRUE
    ELSE IF node.type # "file" THEN TRUE
    ELSE IF fi.mtime # node.mtime THEN TRUE
    ELSE IF fi.size # node.size \/ fi.extsize # node.size THEN TRUE
    ELSE IF node.inode # fi.inode THEN TRUE
    ELSE FALSE

-----------------------------------------------------------------------------
(* Targets and the path tree.                                              *)

NoPath == Target(FALSE, << >>)

\* a resolveRelativeTargets that only cleans and expands nothing
resolveNoExpansion(ts) == [i \in 1..Len(ts) |-> Clean(ts[i])]

\* resolveRelativeTargets: every target is cleaned; one without components
\* is replaced by the entries of that directory
RECURSIVE resolveRelativeTargets(_)
resolveRelativeTargets(ts) ==
    IF ts = << >> THEN << >>
    ELSE LET target == Clean(Head(ts))
             names == readdirnames(Abs(target))
         IN  (IF Len(target.pc) > 0 THEN << target >>
              ELSE [i \in 1..Len(names) |-> Join(target, names[i])])
             \o resolveRelativeTargets(Tail(ts))

\* the directory resolveRelativeTargets has to read, if any
DotTargets(ts) == { i \in 1..Len(ts) : Len(Clean(ts[i]).pc) = 0 }

\* NewTree: the node of the path tree at a logical path.  A leaf holds the
\* target's path; an intermediate node holds its children by name and the
\* filesystem path its own metadata is read from
RECURSIVE PathTree(_, _)
PathTree(cts, prefix) ==
    LET here == { i \in 1..Len(cts) : cts[i].pc = prefix }
        below == { i \in 1..Len(cts) :
                     IsPrefix(prefix, cts[i].pc) /\ Len(cts[i].pc) > Len(prefix) }
    IN  IF prefix # << >> /\ here # {}
        THEN [Path |-> cts[CHOOSE i \in here : TRUE], FileInfoPath |-> NoPath,
              Nodes |-> [n \in {} |-> NoPath]]
        ELSE [Path |-> NoPath,
              FileInfoPath |-> IF below = {} THEN NoPath
                               ELSE Target(cts[CHOOSE i \in below : TRUE].abs, prefix),
              Nodes |-> [n \in { cts[i].pc[Len(prefix) + 1] : i \in below } |->
                           PathTree(cts, prefix \o << n >>)]]

\* NewTree(fs, cleanTargets)
NewTree(cts) == PathTree(cts, << >>)

-----------------------------------------------------------------------------
(* The environment: failures, the Error hook, the repository.              *)

\* the environment may still produce a failure
CanFault == Cardinality(faults) < MaxFaults

\* the failures recorded after a step that met failure e (none for nil, and
\* none for a cancellation, which is recorded when the context is cancelled)
Faulted(e) ==
    IF e.kind \in {"nil", "cancel"} THEN faults
    ELSE faults \cup {[run |-> run, err |-> e]}

\* what an Error hook can answer: nil or an error
HookAnswers(err) == {NoErr, err}

\* Archiver.error that passes every error on, whatever the hook answered
archErrorIgnoresHook(err, answer) == err

\* Archiver.error: the error itself without a hook or without an error, the
\* hook's answer otherwise
archError(err, answer) ==
    IF ~opts.hook \/ err = NoErr THEN err ELSE answer

\* the hook's calls after the hook answered v to (item, fi, err); sn is the
\* snapshot path of the item the walker was working on
Gated(item, sn, err, v) ==
    IF ~opts.hook \/ err = NoErr THEN gate
    ELSE gate \cup {[run |-> run, item |-> item, sn |-> sn, err |-> err,
                     verdict |-> v]}

\* Archiver.saveTree that counts every tree as new
saveTreeCountsKnown(tree, at) ==
    IF cancelled
    THEN {[err |-> CancelErr, id |-> NoID, stats |-> ZeroStats]}
    ELSE {[err |-> NoErr, id |-> BlobID("tree", tree.nodes),
           stats |-> [ZeroStats EXCEPT !.TreeBlobs = 1, !.TreeSize = EncLen(tree)]]}
         \cup { [err |-> Err("repo", at), id |-> NoID, stats |-> ZeroStats] :
                x \in IF CanFault THEN {1} ELSE {} }

\* Archiver.saveTree: what storing a tree can return.  The blob saver fails
\* with the context's error once the context is cancelled, or with the
\* repository's error; a blob the index holds is known and counts for nothing
saveTree(tree, at) ==
    IF cancelled
    THEN {[err |-> CancelErr, id |-> NoID, stats |-> ZeroStats]}
    ELSE {[err |-> NoErr, id |-> BlobID("tree", tree.nodes),
           stats |-> IF BlobID("tree", tree.nodes) \in index THEN ZeroStats
                     ELSE [ZeroStats EXCEPT !.TreeBlobs = 1,
                                            !.TreeSize = EncLen(tree)]]}
         \cup { [err |-> Err("repo", at), id |-> NoID, stats |-> ZeroStats] :
                x \in IF CanFault THEN {1} ELSE {} }

\* a saveTree whose blob never reaches the repository
IndexKept(r) == index

\* the repository and the record of stored trees after saveTree returned r
IndexAfter(r) == IF r.err = NoErr THEN index \cup {r.id} ELSE index

StoredAfter(r, at) ==
    IF r.err = NoErr
    THEN stored \cup {[run |-> run, sn |-> at, id |-> r.id]}
    ELSE stored

\* Repo.LoadTree: the tree of an ID the repository holds
LoadTree(id) == [ok |-> TRUE, nodes |-> id.val]

\* Archiver.loadSubtree: the trees the call can return; a tree that cannot be
\* loaded is nil
loadSubtree(node) ==
    IF node = NoNode THEN {NoTree}
    ELSE IF node.type # "dir" \/ node.subtree = NoID THEN {NoTree}
    ELSE IF cancelled \/ node.subtree \notin index THEN {NoTree}
    ELSE {LoadTree(node.subtree)} \cup (IF CanFault THEN {NoTree} ELSE {})

\* the failure behind a result of loadSubtree (a tree that was there and
\* could not be loaded)
LoadFault(node, t, at) ==
    IF node # NoNode /\ t = NoTree /\ ~cancelled
       /\ node.type = "dir" /\ node.subtree \in index
    THEN Err("load", at) ELSE NoErr

\* Archiver.loadParentTree
loadParentTree(snapshotID) ==
    IF snapshotID = NoID THEN {NoTree}
    ELSE IF cancelled \/ snapshotID \notin snapshots THEN {NoTree}
    ELSE {LoadTree(snapshotID.val.tree)} \cup (IF CanFault THEN {NoTree} ELSE {})

-----------------------------------------------------------------------------
(* File handles.                                                           *)

\* FS.OpenFile succeeded for the item at snapshot path sn
OpenFile(h, sn) == (sn :> 0) @@ h

\* Close that does nothing
CloseFileNot(h, sn) == h

\* file.Close()
CloseFile(h, sn) == [h EXCEPT ![sn] = @ + 1]

\* the handles that are open
OpenHandles == { sn \in DOMAIN handles : handles[sn] = 0 }

-----------------------------------------------------------------------------
(* Call frames and return values of the walker.                            *)

NoRet == [for |-> "none"]

\* FutureNode{}
EmptyFN ==
    [snPath |-> << >>, target |-> NoPath, node |-> NoNode, stats |-> ZeroStats,
     err |-> NoErr, isFile |-> FALSE]

SaveRet(fn, excluded, err) ==
    [for |-> "Save", fn |-> fn, excluded |-> excluded, err |-> err]

SaveDirRet(node, stats, err) ==
    [for |-> "SaveDir", node |-> node, stats |-> stats, err |-> err]

SaveTreeRet(tree, err) == [for |-> "SaveTree", tree |-> tree, err |-> err]

SaveTreeFrame(snPath, atree, previous) ==
    [k |-> "SaveTree", snPath |-> snPath, atree |-> atree, previous |-> previous,
     todo |-> DOMAIN atree.Nodes, futureNodes |-> [n \in {} |-> EmptyFN],
     tree |-> NewResticTree, name |-> "", oldNode |-> NoNode]

SaveDirFrame(snPath, fi, dir, previous) ==
    [k |-> "SaveDir", snPath |-> snPath, fi |-> fi, dir |-> dir,
     previous |-> previous, phase |-> "enter", names |-> << >>,
     futures |-> << >>, tree |-> NewResticTree, treeNode |-> NoNode, name |-> ""]

SaveFrame(snPath, target, previous, fi) ==
    [k |-> "Save", snPath |-> snPath, target |-> target, previous |-> previous,
     fi |-> fi]

Top == stack[Len(stack)]

Pop == SubSeq(stack, 1, Len(stack) - 1)

\* the stack with its top frame replaced
WithTop(f) == Pop \o << f >>

\* the walker is running and its top frame is of kind k
Walking(k) == spc = "walk" /\ stack # << >> /\ Top.k = k

\* a CompleteItem call
Item(sn, isdir, stats) == [run |-> run, item |-> sn, dir |-> isdir, stats |-> stats]

\* arch.StartFile(snPath)
StartFileCall(sn) == [cb |-> "StartFile", run |-> run, item |-> sn]

\* arch.CompleteItem(item, previous, current, s, d); a directory's item is
\* its snapshot path with a slash at the end
CompleteItemCall(sn, isdir, previous, current, stats) ==
    [cb |-> "CompleteItem", run |-> run, item |-> sn, dir |-> isdir,
     previous |-> previous, current |-> current, stats |-> stats]

\* a CompleteBlob that reports no bytes
CompleteBlobCallNoSize(sn, bytes) ==
    [cb |-> "CompleteBlob", run |-> run, item |-> sn, bytes |-> 0]

\* arch.CompleteBlob(filename, bytes)
CompleteBlobCall(sn, bytes) ==
    [cb |-> "CompleteBlob", run |-> run, item |-> sn, bytes |-> bytes]

\* the callbacks invoked after one more call
Invoked(c, e) == c (+) SetToBag({e})

-----------------------------------------------------------------------------
(* Save: one entry.                                                        *)

\* the variables no step of the walker changes
WalkerFrame ==
    UNCHANGED << fsys, targets, opts, run, parent, snapshots, result, commits,
                 cancelled, fcIn, fcOut,
                 optIn, options, ncpu, arch, blobs >>

\* a selector that accepts everything
SelectAll(abstarget, fi) == TRUE

\* Select: the configured selector rejects one path
Select(abstarget, fi) == opts.excl # abstarget

\* Save that does not know sockets
IsSocketNever(fi) == FALSE

\* Save: fi.Mode()&os.ModeSocket > 0
IsSocket(fi) == fi.type = "socket"

\* Save never takes the old node
UseOldNodeNever(fi, previous) == FALSE

\* Save takes the old node whenever there is one, changed or not
UseOldNodeIfAny(fi, previous) == previous # NoNode

\* Save: the previous node is used if the file has not changed
UseOldNode(fi, previous) == previous # NoNode /\ ~fileChanged(fi, previous)

\* a stat that follows the link and finds a regular file behind it
StatFollowing(p) == [FileInfo(p) EXCEPT !.type = "file"]

\* FS.Lstat: the FileInfo of the entry itself, a link is not followed
Lstat(p) == FileInfo(p)

SaveOutcome(kind, fn, excluded, err, fault, hopen, what, fi, sub) ==
    [kind |-> kind, fn |-> fn, excluded |-> excluded, err |-> err,
     fault |-> fault, hopen |-> hopen, what |-> what, fi |-> fi, sub |-> sub]

Excluded(fi) ==
    SaveOutcome("ret", EmptyFN, TRUE, NoErr, NoErr, FALSE, "none", fi, NoTree)

Failed(err, fi) ==
    SaveOutcome("ret", EmptyFN, FALSE, err, err, FALSE, "none", fi, NoTree)

\* Save(ctx, snPath, target, previous) up to its return or its call of
\* SaveDir: the ways it can go.  hopen: the handle is still open afterwards
\* (it went to the FileSaver, or SaveDir runs while Save holds it)
SaveOutcomes(snPath, target, previous) ==
    LET abstarget == Abs(target)
        tpe == fsys[abstarget].type
        fi == FileInfo(abstarget)
        fn == [EmptyFN EXCEPT !.snPath = snPath, !.target = target]
    IN  IF tpe \in {"symlink", "socket"}
        THEN \* OpenFile fails with ELOOP or ENXIO: no handle, and no
             \* FileInfo when Select is asked
             IF ~Select(abstarget, NoFI) THEN {Excluded(NoFI)}
             ELSE (IF IsSocket(Lstat(abstarget)) THEN {Excluded(Lstat(abstarget))}
                   ELSE {SaveOutcome("ret",
                                     [fn EXCEPT !.node =
                                         nodeFromFileInfo(target, Lstat(abstarget))],
                                     FALSE, NoErr, NoErr, FALSE, "none",
                                     Lstat(abstarget), NoTree)})
                  \cup
                  \* Lstat fails: Save closes the handle it does not have
                  (IF CanFault
                   THEN {SaveOutcome("panic", EmptyFN, FALSE, NoErr,
                                     Err("lstat", abstarget), FALSE, "none",
                                     NoFI, NoTree)}
                   ELSE {})
        ELSE IF ~Select(abstarget, fi)
        THEN \* Select is asked before the errors of OpenFile and Stat are
             \* looked at: a rejected entry is dropped, whether or not it
             \* could be opened
             {Excluded(fi)} \cup
             (IF CanFault
              THEN {[Excluded(NoFI) EXCEPT !.fault = Err("open", abstarget)],
                    [Excluded(NoFI) EXCEPT !.fault = Err("stat", abstarget)]}
              ELSE {})
        ELSE (IF CanFault
              THEN {Failed(Err("open", abstarget), NoFI),
                    Failed(Err("stat", abstarget), NoFI)}
              ELSE {})
             \cup
             (IF tpe = "file"
              THEN IF UseOldNode(fi, previous)
                   THEN {SaveOutcome("ret", [fn EXCEPT !.node = previous], FALSE,
                                     NoErr, NoErr, FALSE, "reuse", fi, NoTree)}
                   ELSE {SaveOutcome("ret", [fn EXCEPT !.isFile = TRUE], FALSE,
                                     NoErr, NoErr, TRUE, "submit", fi, NoTree)}
              ELSE IF tpe = "dir"
              THEN { SaveOutcome("dir", fn, FALSE, NoErr,
                                 LoadFault(previous, sub, snPath), TRUE,
                                 "none", fi, sub) : sub \in loadSubtree(previous) }
              ELSE \* another type: the node, then the handle's Close
                   {SaveOutcome("ret",
                                [fn EXCEPT !.node = nodeFromFileInfo(target, fi)],
                                FALSE, NoErr, NoErr, FALSE, "none", fi, NoTree)}
                   \cup
                   (IF CanFault
                    THEN {SaveOutcome("ret",
                                      [fn EXCEPT !.node = nodeFromFileInfo(target, fi)],
                                      FALSE, Err("close", abstarget),
                                      Err("close", abstarget), FALSE, "none", fi,
                                      NoTree)}
                    ELSE {}))

\* a job of the FileSaver and its future: pending are the chunks handed to
\* the BlobSaver and not stored yet, got the chunks in the order they were
\* stored; resolves and waits count how often the future was resolved and
\* waited for
Job(target, fi, previous) ==
    [state |-> "queued", target |-> target, fi |-> fi, previous |-> previous,
     node |-> NoNode, err |-> NoErr, stats |-> ZeroStats, awaited |-> FALSE,
     pending |-> {}, got |-> << >>, resolves |-> 0, waits |-> 0]

\* OpenFile succeeded in a call of Save that went the way o: the entry is
\* neither a symlink nor a socket, and the call did not end with the error
\* of OpenFile
Opened(target, o) ==
    /\ fsys[Abs(target)].type \notin {"symlink", "socket"}
    /\ o.fault.kind # "open"

\* the step of the walker that calls Save from a loop whose frame becomes f
CallSave(f, snPath, target, previous) ==
    \E o \in SaveOutcomes(snPath, target, previous) :
        /\ faults' = Faulted(o.fault)
        /\ handles' = IF o.hopen THEN OpenFile(handles, snPath)
                      ELSE IF Opened(target, o)
                      THEN CloseFile(OpenFile(handles, snPath), snPath)
                      ELSE handles
        /\ spc' = IF o.kind = "panic" THEN "panic" ELSE spc
        /\ stack' = IF o.kind = "dir"
                    THEN WithTop(f) \o << SaveFrame(snPath, target, previous, o.fi),
                                          SaveDirFrame(snPath, o.fi, target, o.sub) >>
                    ELSE WithTop(f)
        /\ ret' = IF o.kind = "ret" THEN SaveRet(o.fn, o.excluded, o.err) ELSE NoRet
        /\ jobs' = IF o.what = "submit"
                   THEN (snPath :> Job(target, o.fi, previous)) @@ jobs
                   ELSE jobs
        /\ queue' = IF o.what = "submit" THEN Append(queue, snPath) ELSE queue
        /\ items' = IF o.what = "reuse"
                    THEN items \cup {Item(snPath, FALSE, ZeroStats)}
                    ELSE items
        /\ calls' = IF o.what = "reuse"
                    THEN Invoked(Invoked(calls,
                             CompleteItemCall(snPath, FALSE, previous, previous,
                                              ZeroStats)),
                             CompleteBlobCall(snPath, previous.size))
                    ELSE calls
        /\ reused' = IF o.what = "reuse"
                     THEN reused \cup {[run |-> run, sn |-> snPath, node |-> previous]}
                     ELSE reused
        /\ UNCHANGED << index, stored, gate >>
        /\ WalkerFrame

-----------------------------------------------------------------------------
(* SaveDir: one directory of the filesystem.                               *)

\* FutureNode.wait: a file's node, error and stats are those of its job
Waited(fn) ==
    IF fn.isFile
    THEN [fn EXCEPT !.node = jobs[fn.snPath].node, !.err = jobs[fn.snPath].err,
                    !.stats = jobs[fn.snPath].stats]
    ELSE fn

\* the jobs after the walker waited for a future
AwaitedJobs(fn) ==
    IF fn.isFile
    THEN [jobs EXCEPT ![fn.snPath].awaited = TRUE, ![fn.snPath].waits = @ + 1]
    ELSE jobs

\* a wait that returns at once
ReadyAtOnce(fn) == TRUE

\* wait returns: the future is no file, or its job is done
Ready(fn) == fn.isFile => jobs[fn.snPath].state = "done"

\* a second loop that begins at any time
AllDispatchedAlways(f) == TRUE

\* the first loop of SaveDir has ended: it ranged over all the names
AllDispatched(f) == f.names = << >>

\* the second loop of SaveDir has ended: every future was waited for
AllAwaited(f) == f.futures = << >>

\* SaveDir starts: the directory's own node, then its sorted names
SaveDirEnter ==
    /\ Walking("SaveDir") /\ Top.phase = "enter" /\ ret = NoRet
    /\ \/ /\ stack' = WithTop([Top EXCEPT
                         !.phase = "loop",
                         !.treeNode = nodeFromFileInfo(Top.dir, Top.fi),
                         !.names = readdirnames(Abs(Top.dir))])
          /\ UNCHANGED << ret, faults >>
       \/ /\ CanFault
          /\ stack' = Pop
          /\ ret' = SaveDirRet(NoNode, ZeroStats, Err("readdir", Abs(Top.dir)))
          /\ faults' = Faulted(Err("readdir", Abs(Top.dir)))
    /\ UNCHANGED << spc, handles, jobs, queue, items, calls, reused, index, stored, gate >>
    /\ WalkerFrame

\* the first loop of SaveDir: Save is called for the next name
SaveDirNext ==
    /\ Walking("SaveDir") /\ Top.phase = "loop" /\ ret = NoRet
    /\ Top.names # << >>
    /\ LET name == Head(Top.names)
       IN  CallSave([Top EXCEPT !.names = Tail(@), !.name = name],
                    Top.snPath \o << name >>, Join(Top.dir, name),
                    Find(Top.previous, name))

\* the first loop of SaveDir after Save returned: an error goes to the hook,
\* an excluded entry is skipped, a future is kept
SaveDirAfterSave ==
    /\ Walking("SaveDir") /\ ret.for = "Save"
    /\ LET pathname == Join(Top.dir, Top.name)
           snItem == Top.snPath \o << Top.name >>
       IN  IF ret.err # NoErr
           THEN \E answer \in HookAnswers(ret.err) :
                   LET err == archError(ret.err, answer)
                   IN  /\ gate' = Gated(Abs(pathname), snItem, ret.err, answer)
                       /\ IF err = NoErr
                          THEN /\ ret' = NoRet
                               /\ UNCHANGED stack
                          ELSE /\ ret' = SaveDirRet(NoNode, ZeroStats, err)
                               /\ stack' = Pop
           ELSE /\ ret' = NoRet
                /\ stack' = IF ret.excluded THEN stack
                            ELSE WithTop([Top EXCEPT !.futures = Append(@, ret.fn)])
                /\ UNCHANGED gate
    /\ UNCHANGED << spc, handles, jobs, queue, items, calls, reused, index, stored, faults >>
    /\ WalkerFrame

\* the second loop of SaveDir: the next future is waited for; its error goes
\* to the hook, its node into the tree
SaveDirAwait ==
    /\ Walking("SaveDir") /\ Top.phase = "loop" /\ ret = NoRet
    /\ AllDispatched(Top) /\ Top.futures # << >>
    /\ Ready(Head(Top.futures))
    /\ LET fn == Waited(Head(Top.futures))
           rest == [Top EXCEPT !.futures = Tail(@)]
           ins == Insert(Top.tree, fn.node)
       IN  IF fn.err # NoErr
           THEN \E answer \in HookAnswers(fn.err) :
                   LET err == archError(fn.err, answer)
                   IN  /\ gate' = Gated(Abs(fn.target), fn.snPath, fn.err, answer)
                       /\ IF err = NoErr
                          THEN /\ stack' = WithTop(rest)
                               /\ UNCHANGED ret
                          ELSE /\ stack' = Pop
                               /\ ret' = SaveDirRet(NoNode, ZeroStats, err)
           ELSE /\ UNCHANGED gate
                /\ IF fn.node = NoNode
                   THEN /\ stack' = WithTop(rest)
                        /\ UNCHANGED ret
                   ELSE IF ins.err # NoErr
                   THEN /\ stack' = Pop
                        /\ ret' = SaveDirRet(NoNode, ZeroStats, ins.err)
                   ELSE /\ stack' = WithTop([rest EXCEPT !.tree = ins.tree])
                        /\ UNCHANGED ret
    /\ jobs' = AwaitedJobs(Head(Top.futures))
    /\ UNCHANGED << spc, handles, queue, items, calls, reused, index, stored, faults >>
    /\ WalkerFrame

\* SaveDir ends: the tree is stored and the directory's node refers to it
SaveDirReturn ==
    /\ Walking("SaveDir") /\ Top.phase = "loop" /\ ret = NoRet
    /\ AllDispatched(Top) /\ AllAwaited(Top)
    /\ \E r \in saveTree(Top.tree, Top.snPath) :
          /\ index' = IndexAfter(r)
          /\ stored' = StoredAfter(r, Top.snPath)
          /\ faults' = Faulted(r.err)
          /\ ret' = IF r.err # NoErr THEN SaveDirRet(NoNode, ZeroStats, r.err)
                    ELSE SaveDirRet([Top.treeNode EXCEPT !.subtree = r.id],
                                    AddStats(ZeroStats, r.stats), NoErr)
    /\ stack' = Pop
    /\ UNCHANGED << spc, handles, jobs, queue, items, calls, reused, gate >>
    /\ WalkerFrame

\* Save after SaveDir returned: CompleteItem and the handle's Close, or the
\* error
SaveAfterDir ==
    /\ Walking("Save") /\ ret.for = "SaveDir"
    /\ handles' = CloseFile(handles, Top.snPath)
    /\ stack' = Pop
    /\ LET fn == [EmptyFN EXCEPT !.snPath = Top.snPath, !.target = Top.target,
                                 !.node = ret.node, !.stats = ret.stats]
       IN  IF ret.err # NoErr
           THEN /\ ret' = SaveRet(EmptyFN, FALSE, ret.err)
                /\ UNCHANGED << items, calls, faults >>
           ELSE /\ items' = items \cup {Item(Top.snPath, TRUE, ret.stats)}
                /\ calls' = Invoked(calls, CompleteItemCall(Top.snPath, TRUE,
                                        Top.previous, ret.node, ret.stats))
                /\ \/ /\ ret' = SaveRet(fn, FALSE, NoErr)
                      /\ UNCHANGED faults
                   \/ /\ CanFault
                      /\ ret' = SaveRet(fn, FALSE, Err("close", Abs(Top.target)))
                      /\ faults' = Faulted(Err("close", Abs(Top.target)))
    /\ UNCHANGED << spc, jobs, queue, reused, index, stored, gate >>
    /\ WalkerFrame

-----------------------------------------------------------------------------
(* SaveTree: one node of the path tree.                                    *)

\* a node that keeps the name its FileInfo gave it
NamedByFileInfo(node, name) == node

\* fn.node.Name = name: the node takes the name it has in the path tree
Named(node, name) == [node EXCEPT !.name = name]

\* the directory node of an intermediate path-tree node, without its subtree
SyntheticDirNodeNoSubtree(filename, fi, name, id) ==
    [nodeFromFileInfo(filename, fi) EXCEPT !.name = name]

\* the directory node of an intermediate path-tree node: the metadata of
\* FileInfoPath, the name of the path tree, the ID of the stored subtree
SyntheticDirNode(filename, fi, name, id) ==
    [nodeFromFileInfo(filename, fi) EXCEPT !.name = name, !.subtree = id]

\* statDir: the error of stat'ing a path that must be a directory
statDirErr(dir) ==
    IF Abs(dir) \notin DOMAIN fsys THEN Err("statdir", Abs(dir))
    ELSE IF fsys[Abs(dir)].type # "dir" THEN Err("notdir", Abs(dir))
    ELSE NoErr

\* what statDir returns: FileInfo and error, and the failure of the
\* environment behind it
StatDirOutcome(fi, err, fault) == [fi |-> fi, err |-> err, fault |-> fault]

\* a statDir that takes whatever it finds at the path for a directory
statDirLax(dir) ==
    {StatDirOutcome(FileInfo(Abs(dir)), NoErr, NoErr)} \cup
    (IF CanFault
     THEN {StatDirOutcome([FileInfo(Abs(dir)) EXCEPT !.type = "file"], NoErr,
                          Err("notdir", Abs(dir)))}
     ELSE {})

\* statDir: FS.Stat of the path and the test of its type.  The path was a
\* directory when the path tree was built; by now it may be gone, or be a
\* file of another type
statDir(dir) ==
    (IF statDirErr(dir) = NoErr
     THEN {StatDirOutcome(FileInfo(Abs(dir)), NoErr, NoErr)}
     ELSE {StatDirOutcome(NoFI, statDirErr(dir), NoErr)}) \cup
    (IF CanFault
     THEN {StatDirOutcome(NoFI, Err("statdir", Abs(dir)), Err("statdir", Abs(dir))),
           StatDirOutcome([FileInfo(Abs(dir)) EXCEPT !.type = "file"],
                          Err("notdir", Abs(dir)), Err("notdir", Abs(dir)))}
     ELSE {})

\* a function without its value at n
Without(f, n) == [x \in DOMAIN f \ {n} |-> f[x]]

\* the first loop of SaveTree takes a child of the path tree, in the order
\* of Go's map iteration (any): a leaf is saved, an intermediate node is
\* entered
SaveTreeNext ==
    /\ Walking("SaveTree") /\ ret = NoRet
    /\ \E name \in Top.todo :
          LET subatree == Top.atree.Nodes[name]
              f == [Top EXCEPT !.todo = @ \ {name}, !.name = name,
                               !.oldNode = Find(Top.previous, name)]
          IN  IF subatree.Path # NoPath
              THEN CallSave(f, Top.snPath \o << name >>, subatree.Path,
                            Find(Top.previous, name))
              ELSE \E sub \in loadSubtree(Find(Top.previous, name)) :
                      /\ stack' = WithTop(f) \o
                                  << SaveTreeFrame(Top.snPath \o << name >>,
                                                   subatree, sub) >>
                      /\ faults' = Faulted(LoadFault(Find(Top.previous, name), sub,
                                                     Top.snPath \o << name >>))
                      /\ UNCHANGED << spc, ret, handles, jobs, queue, items, calls,
                                      reused, index, stored, gate >>
                      /\ WalkerFrame

\* the first loop of SaveTree after Save returned for a leaf
SaveTreeAfterSave ==
    /\ Walking("SaveTree") /\ ret.for = "Save"
    /\ LET path == Top.atree.Nodes[Top.name].Path
           snItem == Top.snPath \o << Top.name >>
       IN  IF ret.err # NoErr
           THEN \E answer \in HookAnswers(ret.err) :
                   LET err == archError(ret.err, answer)
                   IN  /\ gate' = Gated(Abs(path), snItem, ret.err, answer)
                       /\ IF err = NoErr
                          THEN /\ ret' = NoRet
                               /\ UNCHANGED stack
                          ELSE /\ ret' = SaveTreeRet(NoTree, err)
                               /\ stack' = Pop
           ELSE /\ ret' = NoRet
                /\ stack' = IF ret.excluded THEN stack
                            ELSE WithTop([Top EXCEPT !.futureNodes =
                                            (Top.name :> ret.fn) @@ @])
                /\ UNCHANGED gate
    /\ UNCHANGED << spc, handles, jobs, queue, items, calls, reused, index, stored, faults >>
    /\ WalkerFrame

\* the first loop of SaveTree after the SaveTree of an intermediate child
\* returned: the subtree is stored, the directory is stat'ed, its node is
\* inserted
SaveTreeAfterSub ==
    /\ Walking("SaveTree") /\ ret.for = "SaveTree"
    /\ LET name == Top.name
           subatree == Top.atree.Nodes[name]
           snItem == Top.snPath \o << name >>
           fip == subatree.FileInfoPath
       IN  IF ret.err # NoErr
           THEN /\ stack' = Pop
                /\ ret' = SaveTreeRet(NoTree, ret.err)
                /\ UNCHANGED << index, stored, faults, items, calls >>
           ELSE \E r \in saveTree(ret.tree, snItem) :
                   /\ index' = IndexAfter(r)
                   /\ stored' = StoredAfter(r, snItem)
                   /\ IF r.err # NoErr
                      THEN /\ stack' = Pop
                           /\ ret' = SaveTreeRet(NoTree, r.err)
                           /\ faults' = Faulted(r.err)
                           /\ UNCHANGED << items, calls >>
                      ELSE IF fip = NoPath
                      THEN /\ stack' = Pop
                           /\ ret' = SaveTreeRet(NoTree, Err("nofileinfo", snItem))
                           /\ UNCHANGED << faults, items, calls >>
                      ELSE \E o \in statDir(fip) :
                              /\ faults' = Faulted(o.fault)
                              /\ IF o.err # NoErr
                                 THEN /\ stack' = Pop
                                      /\ ret' = SaveTreeRet(NoTree, o.err)
                                      /\ UNCHANGED << items, calls >>
                                 ELSE LET node == SyntheticDirNode(fip, o.fi,
                                                                  name, r.id)
                                          ins == Insert(Top.tree, node)
                                      IN  IF ins.err # NoErr
                                          THEN /\ stack' = Pop
                                               /\ ret' = SaveTreeRet(NoTree, ins.err)
                                               /\ UNCHANGED << items, calls >>
                                          ELSE /\ stack' = WithTop([Top EXCEPT
                                                                 !.tree = ins.tree])
                                               /\ ret' = NoRet
                                               /\ items' = items \cup
                                                      {Item(snItem, TRUE, r.stats)}
                                               /\ calls' = Invoked(calls,
                                                      CompleteItemCall(snItem, TRUE,
                                                          Top.oldNode, node, r.stats))
    /\ UNCHANGED << spc, handles, jobs, queue, reused, gate >>
    /\ WalkerFrame

\* the second loop of SaveTree: a future is waited for, in the order of Go's
\* map iteration (any); its node takes the name of the path tree
SaveTreeAwait ==
    /\ Walking("SaveTree") /\ ret = NoRet /\ Top.todo = {}
    /\ \E name \in DOMAIN Top.futureNodes :
          /\ Ready(Top.futureNodes[name])
          /\ LET fn == Waited(Top.futureNodes[name])
                 rest == [Top EXCEPT !.futureNodes = Without(@, name)]
                 ins == Insert(Top.tree, Named(fn.node, name))
             IN  IF fn.err # NoErr
                 THEN \E answer \in HookAnswers(fn.err) :
                         LET err == archError(fn.err, answer)
                         IN  /\ gate' = Gated(Abs(fn.target), fn.snPath, fn.err, answer)
                             /\ IF err = NoErr
                                THEN /\ stack' = WithTop(rest)
                                     /\ UNCHANGED ret
                                ELSE /\ stack' = Pop
                                     /\ ret' = SaveTreeRet(NoTree, err)
                 ELSE /\ UNCHANGED gate
                      /\ IF fn.node = NoNode
                         THEN /\ stack' = WithTop(rest)
                              /\ UNCHANGED ret
                         ELSE IF ins.err # NoErr
                         THEN /\ stack' = Pop
                              /\ ret' = SaveTreeRet(NoTree, ins.err)
                         ELSE /\ stack' = WithTop([rest EXCEPT !.tree = ins.tree])
                              /\ UNCHANGED ret
          /\ jobs' = AwaitedJobs(Top.futureNodes[name])
    /\ UNCHANGED << spc, handles, queue, items, calls, reused, index, stored, faults >>
    /\ WalkerFrame

\* SaveTree returns its tree
SaveTreeReturn ==
    /\ Walking("SaveTree") /\ ret = NoRet /\ Top.todo = {}
    /\ DOMAIN Top.futureNodes = {}
    /\ stack' = Pop
    /\ ret' = SaveTreeRet(Top.tree, NoErr)
    /\ UNCHANGED << spc, handles, jobs, queue, items, calls, reused, index, stored,
                    gate, faults >>
    /\ WalkerFrame

-----------------------------------------------------------------------------
(* The FileSaver pool.                                                     *)

\* Options.ApplyDefaults: at most two files are read concurrently
FileReadConcurrency == 2

\* the Options value with every field unset
ZeroOptions == [FileReadConcurrency |-> 0, SaveBlobConcurrency |-> 0]

\* an ApplyDefaults that sets the defaults whatever the caller chose
ApplyDefaultsAlways(o) ==
    [FileReadConcurrency |-> FileReadConcurrency, SaveBlobConcurrency |-> ncpu]

\* Options.ApplyDefaults: a copy of o with the defaults for the unset fields
ApplyDefaults(o) ==
    [FileReadConcurrency |-> IF o.FileReadConcurrency = 0
                             THEN FileReadConcurrency
                             ELSE o.FileReadConcurrency,
     SaveBlobConcurrency |-> IF o.SaveBlobConcurrency = 0
                             THEN ncpu
                             ELSE o.SaveBlobConcurrency]

\* the workers' context is done: the caller cancelled, or Snapshot returned
CtxDone == cancelled \/ spc = "done"

\* workers whose context outlives the call that started them
WorkingAfterReturn ==
    spc \in {"walk", "flush", "index", "snapshot", "done"} /\ ~cancelled

\* the workers run: Snapshot has started them and their context is not done
Working == spc \in {"walk", "flush", "index", "snapshot"} /\ ~cancelled

\* the variables no step of the FileSaver changes
SaverFrame ==
    UNCHANGED << fsys, targets, opts, run, parent, spc, stack, ret, snapshots,
                 result, commits, stored, gate, reused, cancelled, fcIn, fcOut,
                 optIn, options, ncpu, arch, blobs >>

\* the IDs of a file's chunks, in the order of their offsets
ChunkIDs(data) == [i \in 1..Len(data) |-> BlobID("data", data[i])]

\* the jobs a worker is busy with
Busy == { sn \in DOMAIN jobs : jobs[sn].state \in {"running", "saving"} }

\* the data of the file a job reads
DataOf(sn) == fsys[Abs(jobs[sn].target)].data

\* a content list in the order in which the BlobSaver stored the chunks
ContentAsStored(data, got) ==
    [i \in 1..Len(got) |-> BlobID("data", data[got[i]])]

\* the content list of a file's node: the worker keeps the chunks' futures
\* in the order of their offsets and waits for them in that order
Content(data, got) == ChunkIDs(data)

\* a pool in which a worker is free whenever a job waits
WorkerFreeAlways == TRUE

\* a worker that does not tell when it takes a job
StartedSilently(c, sn) == c

\* the worker that takes a job invokes the job's start callback: StartFile
Started(c, sn) == Invoked(c, StartFileCall(sn))

\* NewFileSaver starts arch.Options.FileReadConcurrency workers, each of
\* which has one file at a time: one of them is free
WorkerFree == Cardinality(Busy) < options.FileReadConcurrency

\* a BlobSaver that answers without storing the blob
SaveBlobNowhere(ix, id) == ix

\* the BlobSaver's worker stores a blob: the repository holds it afterwards
SaveBlob(ix, id) == ix \cup {id}

\* a worker takes the next job
FileStart ==
    /\ Working
    /\ queue # << >>
    /\ WorkerFree
    /\ jobs' = [jobs EXCEPT ![Head(queue)].state = "running"]
    /\ queue' = Tail(queue)
    /\ calls' = Started(calls, Head(queue))
    /\ UNCHANGED << handles, index, items, faults >>
    /\ SaverFrame

\* a worker reads its file to the end and closes it: every chunk has been
\* handed to the BlobSaver; or reading fails, the file is closed and the
\* future resolves with the error
FileRead ==
    /\ Working
    /\ \E sn \in DOMAIN jobs :
          /\ jobs[sn].state = "running"
          /\ handles' = CloseFile(handles, sn)
          /\ \/ /\ jobs' = [jobs EXCEPT ![sn].state = "saving",
                                        ![sn].pending = 1..Len(DataOf(sn))]
                /\ UNCHANGED faults
             \/ /\ CanFault
                /\ jobs' = [jobs EXCEPT ![sn].state = "done",
                                        ![sn].err = Err("read", Abs(jobs[sn].target)),
                                        ![sn].resolves = @ + 1]
                /\ faults' = Faulted(Err("read", Abs(jobs[sn].target)))
    /\ UNCHANGED << queue, index, items, calls >>
    /\ SaverFrame

\* the BlobSaver stores a chunk of a file, whichever of the pending ones: a
\* chunk the index holds is known and counts for nothing; or storing fails
\* and the file's future resolves with the error
BlobSave ==
    /\ Working
    /\ \E sn \in DOMAIN jobs :
          /\ jobs[sn].state = "saving"
          /\ \E i \in jobs[sn].pending :
                LET id == BlobID("data", DataOf(sn)[i])
                    one == [ZeroStats EXCEPT !.DataBlobs = 1, !.DataSize = 1]
                IN  \/ /\ jobs' = [jobs EXCEPT
                                     ![sn].pending = @ \ {i},
                                     ![sn].got = Append(@, i),
                                     ![sn].stats = IF id \in index THEN @
                                                   ELSE AddStats(@, one)]
                       /\ index' = SaveBlob(index, id)
                       /\ UNCHANGED faults
                    \/ /\ CanFault
                       /\ jobs' = [jobs EXCEPT
                                     ![sn].state = "done", ![sn].pending = {},
                                     ![sn].got = << >>, ![sn].stats = ZeroStats,
                                     ![sn].err = Err("repo", Abs(jobs[sn].target)),
                                     ![sn].resolves = @ + 1]
                       /\ faults' = Faulted(Err("repo", Abs(jobs[sn].target)))
                       /\ UNCHANGED index
    /\ UNCHANGED << queue, handles, items, calls >>
    /\ SaverFrame

\* a worker finishes its file: every chunk is stored, the node is built and
\* the future resolves with it
FileFinish ==
    /\ Working
    /\ \E sn \in DOMAIN jobs :
          /\ jobs[sn].state = "saving" /\ jobs[sn].pending = {}
          /\ LET node == [nodeFromFileInfo(jobs[sn].target, jobs[sn].fi) EXCEPT
                            !.content = Content(DataOf(sn), jobs[sn].got),
                            !.size = Len(DataOf(sn))]
             IN  /\ jobs' = [jobs EXCEPT ![sn].state = "done", ![sn].node = node,
                                         ![sn].resolves = @ + 1]
                 /\ items' = items \cup {Item(sn, FALSE, jobs[sn].stats)}
                 /\ calls' = Invoked(Invoked(calls,
                                CompleteBlobCall(sn, Len(DataOf(sn)))),
                                CompleteItemCall(sn, FALSE, jobs[sn].previous, node,
                                                 jobs[sn].stats))
    /\ UNCHANGED << queue, handles, index, faults >>
    /\ SaverFrame

\* the context is done: a job that is not finished resolves with the
\* cancellation; its file is closed if it still is open
FileCancel ==
    /\ CtxDone
    /\ \E sn \in DOMAIN jobs :
          /\ jobs[sn].state # "done"
          /\ jobs' = [jobs EXCEPT ![sn].state = "done", ![sn].err = CancelErr,
                                  ![sn].pending = {}, ![sn].got = << >>,
                                  ![sn].stats = ZeroStats,
                                  ![sn].resolves = @ + 1]
          /\ queue' = SelectSeq(queue, LAMBDA q : q # sn)
          /\ handles' = IF handles[sn] = 0 THEN CloseFile(handles, sn) ELSE handles
    /\ UNCHANGED << index, items, calls, faults >>
    /\ SaverFrame

\* the caller cancels the context
Cancel ==
    /\ spc \in {"walk", "flush", "index", "snapshot"}
    /\ ~cancelled /\ CanFault
    /\ cancelled' = TRUE
    /\ faults' = faults \cup {[run |-> run, err |-> CancelErr]}
    /\ UNCHANGED << fsys, targets, opts, run, parent, spc, stack, ret, jobs,
                    queue, handles, index, snapshots, result, commits, stored,
                    items, calls, gate, reused, fcIn, fcOut,
                 optIn, options, ncpu, arch, blobs >>

-----------------------------------------------------------------------------
(* Snapshot.                                                               *)

\* what a Snapshot call returned: an error, or the snapshot's ID and tree
Returned(err, id, tree) == [err |-> err, id |-> id, tree |-> tree]

\* the errors a call of the repository (Flush, SaveIndex, SaveJSONUnpacked)
\* can return
RepoErrs(step) ==
    IF cancelled THEN {CancelErr}
    ELSE {NoErr} \cup (IF CanFault THEN {Err("repo", << step >>)} ELSE {})

\* Snapshot's steps after the walk, with the error of Flush not looked at
SnapshotNextIgnoresFlushErr(step, err) ==
    IF err # NoErr /\ step # "flush" THEN "done"
    ELSE CASE step = "tree" -> "flush"
           [] step = "flush" -> "index"
           [] step = "index" -> "snapshot"
           [] step = "snapshot" -> "done"

\* Snapshot's steps after the walk: the root tree, Flush, SaveIndex, the
\* snapshot; an error ends the call
SnapshotNext(step, err) ==
    IF err # NoErr THEN "done"
    ELSE CASE step = "tree" -> "flush"
           [] step = "flush" -> "index"
           [] step = "index" -> "snapshot"
           [] step = "snapshot" -> "done"

\* an error return of Snapshot that replaces the error by another
SnapshotFailWrapped(err) == Returned(Err("wrapped", << >>), NoID, NoID)

\* an error return of Snapshot: the error is passed on as it is
SnapshotFail(err) == Returned(err, NoID, NoID)

\* the end of Snapshot with the error of SaveJSONUnpacked not looked at
SnapshotReturnIgnoresErr(id, tree, err) == Returned(NoErr, id, tree)

\* the end of Snapshot: the error of SaveJSONUnpacked, or the snapshot
SnapshotReturn(id, tree, err) ==
    IF err # NoErr THEN SnapshotFail(err) ELSE Returned(NoErr, id, tree)

\* the snapshot object of the current call
NewSnapshot(tree) ==
    [time |-> run, tree |-> tree, parent |-> parent, paths |-> targets]

\* the variables no step of Snapshot itself changes
SnapshotFrame ==
    UNCHANGED << fsys, targets, opts, run, parent, jobs, queue, handles, gate,
                 reused, cancelled, fcIn, fcOut,
                 optIn, options, ncpu, blobs >>

\* runWorkers: NewBlobSaver, then NewFileSaver with arch.Repo.Config(); with
\* Repo unset the second never returns
runWorkers(a) ==
    IF a.Repo THEN [a EXCEPT !.blobSaver = TRUE, !.fileSaver = TRUE]
    ELSE [a EXCEPT !.blobSaver = TRUE]

\* Archiver.Valid: the error for the first field that is missing
Valid(a) ==
    IF ~a.blobSaver THEN Err("valid", << "blobSaver" >>)
    ELSE IF ~a.fileSaver THEN Err("valid", << "fileSaver" >>)
    ELSE IF ~a.Repo THEN Err("valid", << "Repo" >>)
    ELSE IF ~a.Select THEN Err("valid", << "Select" >>)
    ELSE IF ~a.FS THEN Err("valid", << "FS" >>)
    ELSE NoErr

\* Snapshot up to its call of SaveTree: the workers, the targets, the path
\* tree, the parent's tree
SnapshotStart ==
    /\ spc = "start"
    /\ arch' = runWorkers(arch)
    /\ IF ~arch.Repo
       THEN \* arch.Repo.Config() in runWorkers: a call on a nil interface
            /\ spc' = "panic"
            /\ UNCHANGED << stack, result, faults >>
       ELSE IF Valid(runWorkers(arch)) # NoErr
       THEN /\ spc' = "done"
            /\ result' = Append(result, SnapshotFail(Valid(runWorkers(arch))))
            /\ UNCHANGED << stack, faults >>
       ELSE
       \/ /\ DotTargets(targets) # {} /\ CanFault
          /\ LET e == Err("readdir", Abs(Clean(targets[CHOOSE i \in DotTargets(targets) : TRUE])))
             IN  /\ faults' = Faulted(e)
                 /\ result' = Append(result, SnapshotFail(e))
          /\ spc' = "done"
          /\ UNCHANGED stack
       \/ \E prev \in loadParentTree(parent) :
             /\ stack' = << SaveTreeFrame(<< >>,
                                          NewTree(resolveRelativeTargets(targets)),
                                          prev) >>
             /\ faults' = IF parent # NoID /\ prev = NoTree
                          THEN Faulted(Err("load", << >>)) ELSE faults
             /\ spc' = "walk"
             /\ UNCHANGED result
    /\ UNCHANGED << ret, index, snapshots, commits, stored, items, calls >>
    /\ SnapshotFrame

\* after SaveTree returned: its error ends the call; else the root tree is
\* stored and CompleteItem("/") is called
SnapshotSaveRoot ==
    /\ spc = "walk" /\ stack = << >> /\ ret.for = "SaveTree"
    /\ IF ret.err # NoErr
       THEN /\ spc' = "done"
            /\ result' = Append(result, SnapshotFail(ret.err))
            /\ ret' = NoRet
            /\ UNCHANGED << index, stored, faults, commits, items, calls >>
       ELSE \E r \in saveTree(ret.tree, << >>) :
               /\ index' = IndexAfter(r)
               /\ stored' = StoredAfter(r, << >>)
               /\ faults' = Faulted(r.err)
               /\ commits' = Append(commits, [step |-> "tree", err |-> r.err])
               /\ spc' = SnapshotNext("tree", r.err)
               /\ result' = IF SnapshotNext("tree", r.err) = "done"
                            THEN Append(result, SnapshotFail(r.err))
                            ELSE result
               /\ ret' = IF r.err = NoErr THEN [for |-> "root", id |-> r.id]
                         ELSE NoRet
               /\ items' = IF r.err = NoErr
                           THEN items \cup {Item(<< >>, TRUE, r.stats)}
                           ELSE items
               /\ calls' = IF r.err = NoErr
                           THEN Invoked(calls, CompleteItemCall(<< >>, TRUE, NoNode,
                                                                NoNode, r.stats))
                           ELSE calls
    /\ UNCHANGED << stack, snapshots >>
    /\ UNCHANGED arch
    /\ SnapshotFrame

\* Repo.Flush
SnapshotFlush ==
    /\ spc = "flush"
    /\ \E err \in RepoErrs("flush") :
          /\ faults' = Faulted(err)
          /\ commits' = Append(commits, [step |-> "flush", err |-> err])
          /\ spc' = SnapshotNext("flush", err)
          /\ result' = IF SnapshotNext("flush", err) = "done"
                       THEN Append(result, SnapshotFail(err))
                       ELSE result
    /\ UNCHANGED << stack, ret, index, snapshots, stored, items, calls >>
    /\ UNCHANGED arch
    /\ SnapshotFrame

\* Repo.SaveIndex
SnapshotSaveIndex ==
    /\ spc = "index"
    /\ \E err \in RepoErrs("index") :
          /\ faults' = Faulted(err)
          /\ commits' = Append(commits, [step |-> "index", err |-> err])
          /\ spc' = SnapshotNext("index", err)
          /\ result' = IF SnapshotNext("index", err) = "done"
                       THEN Append(result, SnapshotFail(err))
                       ELSE result
    /\ UNCHANGED << stack, ret, index, snapshots, stored, items, calls >>
    /\ UNCHANGED arch
    /\ SnapshotFrame

\* the snapshot object is built and saved; Snapshot returns
SnapshotSave ==
    /\ spc = "snapshot"
    /\ \E err \in RepoErrs("snapshot") :
          LET id == BlobID("snapshot", NewSnapshot(ret.id))
          IN  /\ faults' = Faulted(err)
              /\ commits' = Append(commits, [step |-> "snapshot", err |-> err])
              /\ snapshots' = IF err = NoErr THEN snapshots \cup {id} ELSE snapshots
              /\ result' = Append(result, SnapshotReturn(id, ret.id, err))
    /\ spc' = "done"
    /\ ret' = NoRet
    /\ UNCHANGED << stack, index, stored, items, calls >>
    /\ UNCHANGED arch
    /\ SnapshotFrame

\* the file a is edited: a later modification time, its first chunk gone and
\* a new one at its end
Touch(fs) ==
    [fs EXCEPT ![<< "h", "u", "a" >>] =
        [File(3, << 2, 3 >>) EXCEPT !.mtime = 2]]

\* Snapshot is called again, on the same repository, after a call that
\* succeeded without any failure: with or without that snapshot as its
\* parent, the filesystem as it was or edited
NextRun ==
    /\ spc = "done" /\ run = 1
    /\ result[1].err = NoErr /\ faults = {}
    /\ run' = 2
    /\ parent' \in {NoID, result[1].id}
    /\ fsys' \in {fsys, Touch(fsys)}
    /\ spc' = "start"
    /\ stack' = << >>
    /\ ret' = NoRet
    /\ jobs' = [x \in {} |-> NoRet]
    /\ queue' = << >>
    /\ commits' = << >>
    /\ handles' = << >>
    /\ cancelled' = FALSE
    /\ arch' \in {arch} \cup
                (IF arch.WithAtime /\ parent' # NoID
                 THEN {[arch EXCEPT !.WithAtime = FALSE]} ELSE {})
    /\ UNCHANGED << targets, opts, index, snapshots, result, stored,
                    items, calls, gate, reused, faults, fcIn, fcOut,
                 optIn, options, ncpu, blobs >>

-----------------------------------------------------------------------------
(* The specification of the archiver.                                      *)

\* the paths a selector may reject
Exclusions == { << >>, << "h", "u" >>, << "h", "u", "a" >>, << "h", "u", "b" >> }

\* the archivers of the plain configuration: Repo, Select and FS are set
\* or left unset
Archivers ==
    { NewArchiver(r, sel, f, FALSE) : r \in BOOLEAN, sel \in BOOLEAN,
                                      f \in BOOLEAN }

\* the configurations of the archiver: with and without an Error hook and
\* a selector; access times are kept in one of them
Configurations ==
    [hook : BOOLEAN, excl : Exclusions, atime : {FALSE}] \cup
    [hook : {FALSE}, excl : {<< >>}, atime : {TRUE}]

\* a repository and a filesystem before the first call of Snapshot
Fresh ==
    /\ fsys = InitFS
    /\ targets \in TargetLists
    /\ opts \in Configurations
    /\ run = 1
    /\ parent = NoID
    /\ spc = "start"
    /\ stack = << >>
    /\ ret = NoRet
    /\ jobs = [x \in {} |-> NoRet]
    /\ queue = << >>
    /\ handles = << >>
    /\ index = {}
    /\ snapshots = {}
    /\ result = << >>
    /\ commits = << >>
    /\ stored = {}
    /\ items = {}
    /\ calls = EmptyBag
    /\ gate = {}
    /\ reused = {}
    /\ faults = {}
    /\ cancelled = FALSE
    /\ fcIn = [fi |-> NoFI, node |-> NoNode]
    /\ fcOut = "none"
    /\ optIn = ZeroOptions
    /\ ncpu = 1
    /\ options = ApplyDefaults(ZeroOptions)
    /\ blobs = NoBlobs

\* Snapshot is called on an archiver with every field set
Init ==
    /\ Fresh
    /\ arch = NewArchiver(TRUE, TRUE, TRUE, opts.atime)

\* Snapshot is called on an archiver of the plain configuration, whatever
\* was set
ValidInit ==
    /\ Fresh
    /\ opts = [hook |-> FALSE, excl |-> << >>, atime |-> FALSE]
    /\ arch \in Archivers

Next ==
    \/ SnapshotStart
    \/ SaveTreeNext
    \/ SaveTreeAfterSave
    \/ SaveTreeAfterSub
    \/ SaveTreeAwait
    \/ SaveTreeReturn
    \/ SaveDirEnter
    \/ SaveDirNext
    \/ SaveDirAfterSave
    \/ SaveDirAwait
    \/ SaveDirReturn
    \/ SaveAfterDir
    \/ SnapshotSaveRoot
    \/ SnapshotFlush
    \/ SnapshotSaveIndex
    \/ SnapshotSave
    \/ FileStart
    \/ FileRead
    \/ BlobSave
    \/ FileFinish
    \/ FileCancel
    \/ Cancel
    \/ NextRun

Spec == Init /\ [][Next]_vars

SpecValid == ValidInit /\ [][Next]_vars

-----------------------------------------------------------------------------
(* The specification of the change detector: fileChanged applied to every   *)
(* FileInfo and previous node within the bounds.                           *)

Stamps == 1..MaxStamp

\* the FileInfos fileChanged is given
FCFileInfos ==
    [name : {"a"}, type : {"file"}, mtime : Stamps, atime : {1}, size : Stamps,
     extsize : Stamps, inode : Stamps]

\* the previous nodes fileChanged is given; nil is one of them
FCNodes ==
    {NoNode} \cup
    [name : {"a"}, type : {"file", "dir"}, mtime : Stamps, atime : {1},
     size : Stamps, inode : Stamps, content : {<< >>}, subtree : {NoID}]

FCInit ==
    /\ fsys = InitFS
    /\ targets = << Target(TRUE, << "h", "u" >>) >>
    /\ opts = [hook |-> FALSE, excl |-> << >>, atime |-> FALSE]
    /\ run = 1
    /\ parent = NoID
    /\ spc = "fileChanged"
    /\ stack = << >>
    /\ ret = NoRet
    /\ jobs = [x \in {} |-> NoRet]
    /\ queue = << >>
    /\ handles = << >>
    /\ index = {}
    /\ snapshots = {}
    /\ result = << >>
    /\ commits = << >>
    /\ stored = {}
    /\ items = {}
    /\ calls = EmptyBag
    /\ gate = {}
    /\ reused = {}
    /\ faults = {}
    /\ cancelled = FALSE
    /\ fcIn \in [fi : FCFileInfos, node : FCNodes]
    /\ fcOut = "none"
    /\ optIn = ZeroOptions
    /\ ncpu = 1
    /\ options = ApplyDefaults(ZeroOptions)
    /\ arch = NewArchiver(TRUE, TRUE, TRUE, opts.atime)
    /\ blobs = NoBlobs

\* fileChanged is called
FCApply ==
    /\ spc = "fileChanged" /\ fcOut = "none"
    /\ fcOut' = IF fileChanged(fcIn.fi, fcIn.node) THEN "changed" ELSE "unchanged"
    /\ UNCHANGED << fsys, targets, opts, run, parent, spc, stack, ret, jobs,
                    queue, handles, index, snapshots, result, commits, stored,
                    items, calls, gate, reused, faults, cancelled, fcIn,
                    optIn, options, ncpu, arch, blobs >>

FCNext == FCApply

SpecFC == FCInit /\ [][FCNext]_vars

-----------------------------------------------------------------------------
(* The specification of target resolution: resolveRelativeTargets applied  *)
(* to every list of targets within the bounds, in the initial filesystem.  *)

MaxTargets == 3

\* the target strings: ".", "./.", "u/./b", "/h/u", "u/a"
RTTargets ==
    { Target(FALSE, << "." >>), Target(FALSE, << ".", "." >>),
      Target(FALSE, << "u", ".", "b" >>), Target(TRUE, << "h", "u" >>),
      Target(FALSE, << "u", "a" >>) }

RTLists == UNION { [1..n -> RTTargets] : n \in 1..MaxTargets }

RTInit ==
    /\ fsys = InitFS
    /\ targets \in RTLists
    /\ opts = [hook |-> FALSE, excl |-> << >>, atime |-> FALSE]
    /\ run = 1
    /\ parent = NoID
    /\ spc = "resolve"
    /\ stack = << >>
    /\ ret = NoRet
    /\ jobs = [x \in {} |-> NoRet]
    /\ queue = << >>
    /\ handles = << >>
    /\ index = {}
    /\ snapshots = {}
    /\ result = << >>
    /\ commits = << >>
    /\ stored = {}
    /\ items = {}
    /\ calls = EmptyBag
    /\ gate = {}
    /\ reused = {}
    /\ faults = {}
    /\ cancelled = FALSE
    /\ fcIn = [fi |-> NoFI, node |-> NoNode]
    /\ fcOut = "none"
    /\ optIn = ZeroOptions
    /\ ncpu = 1
    /\ options = ApplyDefaults(ZeroOptions)
    /\ arch = NewArchiver(TRUE, TRUE, TRUE, opts.atime)
    /\ blobs = NoBlobs

\* resolveRelativeTargets is called: it returns the resolved list, or the
\* error of readdirnames for a target without components
RTApply ==
    /\ spc = "resolve"
    /\ spc' = "resolved"
    /\ \/ ret' = [for |-> "resolveRelativeTargets",
                  result |-> resolveRelativeTargets(targets), err |-> NoErr]
       \/ \E i \in DotTargets(targets) :
             ret' = [for |-> "resolveRelativeTargets", result |-> << >>,
                     err |-> Err("readdir", Abs(Clean(targets[i])))]
    /\ UNCHANGED << fsys, targets, opts, run, parent, stack, jobs,
                    queue, handles, index, snapshots, result, commits, stored,
                    items, calls, gate, reused, faults, cancelled, fcIn, fcOut,
                 optIn, options, ncpu, arch, blobs >>

RTNext == RTApply

SpecRT == RTInit /\ [][RTNext]_vars

-----------------------------------------------------------------------------
(* The specification of the FileSaver pool: an archiver is made with any   *)
(* Options within the bounds, and the walker hands the regular files of    *)
(* one directory to the FileSaver, which works on them.                    *)

MaxFiles == 3

MaxConcurrency == 2

MaxCPU == 2

\* the Options New is given
OptionsIn ==
    [FileReadConcurrency : 0..MaxConcurrency,
     SaveBlobConcurrency : 0..MaxConcurrency]

\* the names of the files in the directory /h/u
PoolNames == SubSeq(<< "a", "b", "d", "l", "s" >>, 1, MaxFiles)

\* a directory /h/u that holds regular files of one chunk only
PoolFS ==
    [p \in {<< "h" >>, << "h", "u" >>} \cup
           { << "h", "u", PoolNames[i] >> : i \in 1..MaxFiles } |->
        IF Len(p) < 3 THEN Other("dir", Len(p))
        ELSE File(2 + Rank(p[3]), << 1 >>)]

PoolInit ==
    /\ fsys = PoolFS
    /\ targets = << Target(TRUE, << "h", "u" >>) >>
    /\ opts = [hook |-> FALSE, excl |-> << >>, atime |-> FALSE]
    /\ run = 1
    /\ parent = NoID
    /\ spc = "new"
    /\ stack = << >>
    /\ ret = NoRet
    /\ jobs = [x \in {} |-> NoRet]
    /\ queue = << >>
    /\ handles = << >>
    /\ index = {}
    /\ snapshots = {}
    /\ result = << >>
    /\ commits = << >>
    /\ stored = {}
    /\ items = {}
    /\ calls = EmptyBag
    /\ gate = {}
    /\ reused = {}
    /\ faults = {}
    /\ cancelled = FALSE
    /\ fcIn = [fi |-> NoFI, node |-> NoNode]
    /\ fcOut = "none"
    /\ optIn \in OptionsIn
    /\ ncpu \in 1..MaxCPU
    /\ options = ZeroOptions
    /\ arch = NewArchiver(TRUE, TRUE, TRUE, opts.atime)
    /\ blobs = NoBlobs

\* New makes the archiver with the defaults applied to the Options it is
\* given; Snapshot starts the workers with them
New ==
    /\ spc = "new"
    /\ options' = ApplyDefaults(optIn)
    /\ spc' = "walk"
    /\ UNCHANGED << fsys, targets, opts, run, parent, stack, ret, jobs,
                    queue, handles, index, snapshots, result, commits, stored,
                    items, calls, gate, reused, faults, cancelled, fcIn, fcOut,
                    optIn, ncpu, arch, blobs >>

\* Save of the next regular file of the directory, in the order of the
\* names: the file is opened and handed to the FileSaver
PoolSubmit ==
    /\ spc = "walk"
    /\ \E i \in 1..MaxFiles :
          LET sn == << "h", "u", PoolNames[i] >>
          IN  /\ sn \notin DOMAIN jobs
              /\ \A j \in 1..(i - 1) : << "h", "u", PoolNames[j] >> \in DOMAIN jobs
              /\ jobs' = (sn :> Job(Target(TRUE, sn), FileInfo(sn), NoNode)) @@ jobs
              /\ queue' = Append(queue, sn)
              /\ handles' = OpenFile(handles, sn)
    /\ UNCHANGED << index, items, calls, faults >>
    /\ SaverFrame

PoolNext ==
    \/ New
    \/ PoolSubmit
    \/ FileStart
    \/ FileRead
    \/ BlobSave
    \/ FileFinish
    \/ FileCancel
    \/ Cancel

SpecPool == PoolInit /\ [][PoolNext]_vars

-----------------------------------------------------------------------------
(* The specification of the pipeline: the walker (SaveDir of one directory  *)
(* of regular files, then saveTree), the FileSaver's workers and the        *)
(* BlobSaver's workers, with bounded queues between them.  A submission     *)
(* blocks while the queue is full and no worker is waiting for a job.  The  *)
(* context is never cancelled; storing a blob may fail.                     *)

\* the largest bound of a queue
MaxQueue == 1

\* a directory /h/u that holds regular files of two chunks
LiveFS ==
    [p \in DOMAIN PoolFS |->
        IF Len(p) < 3 THEN PoolFS[p]
        ELSE File(PoolFS[p].inode, << 1, 2 >>)]

\* the pools and their queues
LiveBlobs ==
    { [NoBlobs EXCEPT !.cap = c, !.fcap = f] : c \in 0..MaxQueue, f \in 0..MaxQueue }

\* the walker in SaveDir of /h/u
LiveDirFrame(names, futures) ==
    [k |-> "SaveDir", snPath |-> << "h", "u" >>, names |-> names,
     futures |-> futures]

LiveInit ==
    /\ fsys = LiveFS
    /\ targets = << Target(TRUE, << "h", "u" >>) >>
    /\ opts = [hook |-> FALSE, excl |-> << >>, atime |-> FALSE]
    /\ run = 1
    /\ parent = NoID
    /\ spc = "walk"
    /\ stack = << LiveDirFrame(PoolNames, << >>) >>
    /\ ret = NoRet
    /\ jobs = [x \in {} |-> NoRet]
    /\ queue = << >>
    /\ handles = << >>
    /\ index = {}
    /\ snapshots = {}
    /\ result = << >>
    /\ commits = << >>
    /\ stored = {}
    /\ items = {}
    /\ calls = EmptyBag
    /\ gate = {}
    /\ reused = {}
    /\ faults = {}
    /\ cancelled = FALSE
    /\ fcIn = [fi |-> NoFI, node |-> NoNode]
    /\ fcOut = "none"
    /\ optIn \in [FileReadConcurrency : 1..MaxConcurrency,
                  SaveBlobConcurrency : 1..MaxConcurrency]
    /\ ncpu = 1
    /\ options = ApplyDefaults(optIn)
    /\ arch = runWorkers(NewArchiver(TRUE, TRUE, TRUE, FALSE))
    /\ blobs \in LiveBlobs

\* the file workers that wait for a job
IdleFileWorkers == options.FileReadConcurrency - Cardinality(Busy)

\* the blob workers that wait for a blob
IdleBlobWorkers == options.SaveBlobConcurrency - Cardinality(blobs.work)

\* FileSaver.Save can hand over its job: the queue has room, or a worker
\* waits for it
FileQueueFree == Len(queue) < blobs.fcap + IdleFileWorkers

\* BlobSaver.Save can hand over its blob
BlobQueueFree == Len(blobs.queue) < blobs.cap + IdleBlobWorkers

\* a pool in which no worker takes a blob while another could be at work
BlobWorkerFreeButOne ==
    Cardinality(blobs.work) < options.SaveBlobConcurrency - 1

\* a worker of the BlobSaver is free
BlobWorkerFree == Cardinality(blobs.work) < options.SaveBlobConcurrency

\* the chunk of a file as the BlobSaver gets it
DataBlob(sn, i) == [kind |-> "data", sn |-> sn, i |-> i]

\* a tree as the BlobSaver gets it
TreeBlob(sn) == [kind |-> "tree", sn |-> sn, i |-> 0]

\* the next chunk a worker cuts from its file
NextChunk(sn) == Cardinality(jobs[sn].pending) + Len(jobs[sn].got) + 1

\* the variables no step of the pipeline changes
LiveFrame ==
    UNCHANGED << fsys, targets, opts, run, parent, snapshots, commits, stored,
                 gate, reused, cancelled, fcIn, fcOut, optIn, options, ncpu,
                 arch >>

\* SaveDir, first loop: Save opens the next file and hands it to the
\* FileSaver, as soon as the FileSaver accepts it
LiveSave ==
    /\ spc = "walk" /\ Top.k = "SaveDir"
    /\ ~AllDispatched(Top)
    /\ FileQueueFree
    /\ LET sn == Top.snPath \o << Head(Top.names) >>
       IN  /\ jobs' = (sn :> Job(Target(TRUE, sn), FileInfo(sn), NoNode)) @@ jobs
           /\ queue' = Append(queue, sn)
           /\ handles' = OpenFile(handles, sn)
           /\ stack' = << LiveDirFrame(Tail(Top.names), Append(Top.futures, sn)) >>
    /\ UNCHANGED << spc, ret, index, result, items, calls, faults, blobs >>
    /\ LiveFrame

\* SaveDir, second loop: the walker waits for the next future; an error
\* ends the call
LiveAwait ==
    /\ spc = "walk" /\ Top.k = "SaveDir"
    /\ AllDispatched(Top) /\ ~AllAwaited(Top)
    /\ jobs[Head(Top.futures)].state = "done"
    /\ IF jobs[Head(Top.futures)].err = NoErr
       THEN /\ stack' = << LiveDirFrame(Top.names, Tail(Top.futures)) >>
            /\ UNCHANGED << spc, result >>
       ELSE /\ stack' = << >>
            /\ spc' = "done"
            /\ result' = Append(result, SnapshotFail(jobs[Head(Top.futures)].err))
    /\ UNCHANGED << ret, jobs, queue, handles, index, items, calls, faults, blobs >>
    /\ LiveFrame

\* saveTree: the walker hands the directory's tree to the BlobSaver, as
\* soon as the BlobSaver accepts it
LiveSaveTree ==
    /\ spc = "walk" /\ Top.k = "SaveDir"
    /\ AllDispatched(Top) /\ AllAwaited(Top)
    /\ BlobQueueFree
    /\ blobs' = [blobs EXCEPT !.queue = Append(@, TreeBlob(Top.snPath))]
    /\ stack' = << [k |-> "saveTree", snPath |-> Top.snPath] >>
    /\ UNCHANGED << spc, ret, jobs, queue, handles, index, result, items, calls,
                    faults >>
    /\ LiveFrame

\* saveTree: the result is there, and the call returns
LiveReturn ==
    /\ spc = "walk" /\ Top.k = "saveTree"
    /\ ret # NoRet
    /\ spc' = "done"
    /\ stack' = << >>
    /\ ret' = NoRet
    /\ result' = Append(result, Returned(ret.err, NoID, ret.id))
    /\ UNCHANGED << jobs, queue, handles, index, items, calls, faults, blobs >>
    /\ LiveFrame

\* a file worker cuts the next chunk from its file and hands it to the
\* BlobSaver, as soon as the BlobSaver accepts it
LiveChunk ==
    /\ Working
    /\ BlobQueueFree
    /\ \E sn \in DOMAIN jobs :
          /\ jobs[sn].state = "running"
          /\ NextChunk(sn) <= Len(DataOf(sn))
          /\ blobs' = [blobs EXCEPT !.queue = Append(@, DataBlob(sn, NextChunk(sn)))]
          /\ jobs' = [jobs EXCEPT ![sn].pending = @ \cup {NextChunk(sn)}]
    /\ UNCHANGED << spc, stack, ret, queue, handles, index, result, items, calls,
                    faults >>
    /\ LiveFrame

\* a file worker is at the end of its file: it closes the file and waits
\* for the chunks
LiveEOF ==
    /\ Working
    /\ \E sn \in DOMAIN jobs :
          /\ jobs[sn].state = "running"
          /\ NextChunk(sn) > Len(DataOf(sn))
          /\ handles' = CloseFile(handles, sn)
          /\ jobs' = [jobs EXCEPT ![sn].state = "saving"]
    /\ UNCHANGED << spc, stack, ret, queue, index, result, items, calls, faults,
                    blobs >>
    /\ LiveFrame

\* a blob worker takes the next blob from the queue
BlobTake ==
    /\ Working
    /\ blobs.queue # << >>
    /\ BlobWorkerFree
    /\ blobs' = [blobs EXCEPT !.queue = Tail(@),
                              !.work = @ \cup {Head(blobs.queue)}]
    /\ UNCHANGED << spc, stack, ret, jobs, queue, handles, index, result, items,
                    calls, faults >>
    /\ LiveFrame

\* the future of a chunk resolves with the ID: the file's worker has it
JobWithChunk(j, i, known) ==
    IF j.state = "done" THEN j
    ELSE [j EXCEPT !.pending = @ \ {i}, !.got = Append(@, i),
                   !.stats = IF known THEN @
                             ELSE AddStats(@, [ZeroStats EXCEPT !.DataBlobs = 1,
                                                               !.DataSize = 1])]

\* the future of a chunk resolves with an error: so does the file's
JobWithError(j, e) ==
    IF j.state = "done" THEN j
    ELSE [j EXCEPT !.state = "done", !.pending = {}, !.got = << >>,
                   !.stats = ZeroStats, !.err = e, !.resolves = @ + 1]

\* a blob worker stores its blob, or fails to, and resolves the future
BlobStore ==
    /\ Working
    /\ \E b \in blobs.work :
          /\ blobs' = [blobs EXCEPT !.work = @ \ {b}]
          /\ IF b.kind = "data"
             THEN LET id == BlobID("data", DataOf(b.sn)[b.i])
                      e == Err("repo", Abs(jobs[b.sn].target))
                  IN  \/ /\ index' = SaveBlob(index, id)
                         /\ jobs' = [jobs EXCEPT
                                       ![b.sn] = JobWithChunk(@, b.i, id \in index)]
                         /\ UNCHANGED << faults, handles, ret >>
                      \/ /\ CanFault
                         /\ jobs[b.sn].state # "done"
                         /\ jobs' = [jobs EXCEPT ![b.sn] = JobWithError(@, e)]
                         /\ handles' = IF handles[b.sn] = 0
                                        THEN CloseFile(handles, b.sn) ELSE handles
                         /\ faults' = Faulted(e)
                         /\ UNCHANGED << index, ret >>
             ELSE LET id == BlobID("tree", << b.sn >>)
                      e == Err("repo", b.sn)
                  IN  \/ /\ index' = SaveBlob(index, id)
                         /\ ret' = [for |-> "saveTree", id |-> id, err |-> NoErr]
                         /\ UNCHANGED << faults, handles, jobs >>
                      \/ /\ CanFault
                         /\ ret' = [for |-> "saveTree", id |-> NoID, err |-> e]
                         /\ faults' = Faulted(e)
                         /\ UNCHANGED << index, handles, jobs >>
    /\ UNCHANGED << spc, stack, queue, result, items, calls >>
    /\ LiveFrame

LiveNext ==
    \/ LiveSave
    \/ LiveAwait
    \/ LiveSaveTree
    \/ LiveReturn
    \/ FileStart
    \/ LiveChunk
    \/ LiveEOF
    \/ FileFinish
    \/ BlobTake
    \/ BlobStore
    \/ FileCancel

\* a goroutine that can take a step is scheduled: some step is taken
\* whenever one is possible
SpecLive == LiveInit /\ [][LiveNext]_vars /\ WF_vars(LiveNext)

-----------------------------------------------------------------------------
(* The names of the nodes SaveTree inserts, for a filesystem whose          *)
(* FileInfo.Name() need not be the last component of the path asked for.    *)

\* the names of the path tree and of the FileInfos
SNNames == {"a", "b", "u"}

\* the FileInfos the filesystem may return
SNFileInfos ==
    [name : SNNames, type : {"file", "symlink", "dir"}, mtime : {1}, atime : {2},
     size : {0}, extsize : {0}, inode : {3, 4}]

\* a leaf of the path tree and an intermediate node with one leaf below it
SNLeafNode(n) ==
    [Path |-> Target(FALSE, << n >>), FileInfoPath |-> NoPath,
     Nodes |-> [x \in {} |-> NoPath]]

SNDirNode(n) ==
    [Path |-> NoPath, FileInfoPath |-> Target(FALSE, << n >>),
     Nodes |-> [x \in {"a"} |-> [Path |-> Target(FALSE, << n, "a" >>),
                                 FileInfoPath |-> NoPath,
                                 Nodes |-> [y \in {} |-> NoPath]]]]

\* the roots of the path trees: one child or more, each a leaf or an
\* intermediate node
SNTrees ==
    { [Path |-> NoPath, FileInfoPath |-> NoPath,
       Nodes |-> [n \in K |-> IF n \in D THEN SNDirNode(n) ELSE SNLeafNode(n)]] :
      K \in (SUBSET SNNames) \ {{}}, D \in SUBSET SNNames }

SNInit ==
    /\ fsys = InitFS
    /\ targets = << Target(FALSE, << "u", "a" >>) >>
    /\ opts = [hook |-> FALSE, excl |-> << >>, atime |-> FALSE]
    /\ run = 1
    /\ parent = NoID
    /\ spc = "names"
    /\ stack \in { << SaveTreeFrame(<< >>, t, NoTree) >> : t \in SNTrees }
    /\ ret = NoRet
    /\ jobs = [x \in {} |-> NoRet]
    /\ queue = << >>
    /\ handles = << >>
    /\ index = {}
    /\ snapshots = {}
    /\ result = << >>
    /\ commits = << >>
    /\ stored = {}
    /\ items = {}
    /\ calls = EmptyBag
    /\ gate = {}
    /\ reused = {}
    /\ faults = {}
    /\ cancelled = FALSE
    /\ fcIn = [fi |-> NoFI, node |-> NoNode]
    /\ fcOut = "none"
    /\ optIn = ZeroOptions
    /\ ncpu = 1
    /\ options = ApplyDefaults(ZeroOptions)
    /\ arch = NewArchiver(TRUE, TRUE, TRUE, opts.atime)
    /\ blobs = NoBlobs

\* what the naming steps leave alone
SNFrame ==
    UNCHANGED << fsys, targets, opts, run, parent, spc, ret, jobs, queue,
                 handles, index, snapshots, result, commits, stored, items, calls,
                 gate, reused, faults, cancelled, fcOut, optIn, options, ncpu, arch, blobs >>

\* a leaf: the node made from the FileInfo of the leaf's path is named and
\* inserted
SNLeaf ==
    /\ spc = "names"
    /\ \E name \in Top.todo : \E fi \in SNFileInfos :
          /\ Top.atree.Nodes[name].Path # NoPath
          /\ fi.type # "dir"
          /\ LET node == nodeFromFileInfo(Top.atree.Nodes[name].Path, fi)
                 ins == Insert(Top.tree, Named(node, name))
             IN  stack' = WithTop([Top EXCEPT !.todo = @ \ {name},
                                              !.name = name, !.tree = ins.tree])
          /\ fcIn' = [fi |-> fi, node |-> NoNode]
    /\ SNFrame

\* an intermediate node: the node made from the FileInfo of FileInfoPath is
\* named, given its subtree and inserted
SNIntermediate ==
    /\ spc = "names"
    /\ \E name \in Top.todo : \E fi \in SNFileInfos :
          /\ Top.atree.Nodes[name].Path = NoPath
          /\ fi.type = "dir"
          /\ LET node == SyntheticDirNode(Top.atree.Nodes[name].FileInfoPath, fi,
                                          name, BlobID("tree", << >>))
                 ins == Insert(Top.tree, node)
             IN  stack' = WithTop([Top EXCEPT !.todo = @ \ {name},
                                              !.name = name, !.tree = ins.tree])
          /\ fcIn' = [fi |-> fi, node |-> NoNode]
    /\ SNFrame

SNNext == SNLeaf \/ SNIntermediate

SpecSN == SNInit /\ [][SNNext]_vars

-----------------------------------------------------------------------------
(* Reading a stored snapshot.                                              *)

\* the node at a path below the tree of that ID; nil if a component is
\* missing or is no stored directory
RECURSIVE NodeAt(_, _)
NodeAt(id, p) ==
    LET n == Find(LoadTree(id), Head(p))
    IN  IF Len(p) = 1 THEN n
        ELSE IF n = NoNode THEN NoNode
        ELSE IF n.subtree = NoID THEN NoNode
        ELSE NodeAt(n.subtree, Tail(p))

\* the names in the tree at a path (the root for the empty path)
NamesAt(id, p) ==
    LET t == IF p = << >> THEN id
             ELSE IF NodeAt(id, p) = NoNode THEN NoID
             ELSE NodeAt(id, p).subtree
    IN  IF t = NoID THEN {} ELSE { t.val[i].name : i \in 1..Len(t.val) }

\* the targets after cleaning and dot expansion
CleanTargets == resolveRelativeTargets(targets)

\* the targets whose snapshot path extends p
Through(p) ==
    { i \in 1..Len(CleanTargets) :
        IsPrefix(p, CleanTargets[i].pc) /\ Len(CleanTargets[i].pc) > Len(p) }

\* the filesystem path an item of the snapshot is read from
FsPath(sn) ==
    IF Through(sn) # {}
    THEN Abs(Target(CleanTargets[CHOOSE i \in Through(sn) : TRUE].abs, sn))
    ELSE LET ct == CleanTargets[CHOOSE i \in 1..Len(CleanTargets) :
                                  IsPrefix(CleanTargets[i].pc, sn)]
         IN  Abs(ct) \o SubSeq(sn, Len(ct.pc) + 1, Len(sn))

\* the names the walker meets at a level of the snapshot
ChildNames(sn) ==
    IF Through(sn) # {}
    THEN { CleanTargets[i].pc[Len(sn) + 1] : i \in Through(sn) }
    ELSE { Last(q) : q \in { q \in DOMAIN fsys :
                               Len(q) = Len(FsPath(sn)) + 1 /\ IsPrefix(FsPath(sn), q) } }

Parent(p) == SubSeq(p, 1, Len(p) - 1)

\* the calls of Snapshot that have returned
Finished == 1..Len(result)

Succeeded(r) == r \in Finished /\ result[r].err = NoErr

\* the hook's calls in one Snapshot call
GateOf(r) == { g \in gate : g.run = r }

\* the failures of one Snapshot call
FaultsOf(r) == { f.err : f \in { x \in faults : x.run = r } }

\* the item at sn was not rejected, is no socket, and no error of it was
\* given to the hook
ArchivedCleanly(r, sn) ==
    /\ Select(FsPath(sn), NoFI)
    /\ fsys[FsPath(sn)].type # "socket"
    /\ \A g \in GateOf(r) : g.sn # sn

-----------------------------------------------------------------------------
(* C1: path layout.  In the tree of every snapshot, each target's cleaned  *)
(* components lead from the root to the target: every proper prefix is a   *)
(* directory node of that name, the target itself is there with its type   *)
(* (unless it was rejected, is a socket or had an error the hook           *)
(* swallowed), and the root and the directories on the way hold nothing    *)
(* but the targets' components - no prefix is added, none is dropped.      *)
(* (Looked at when the call returns: its result never changes afterwards.) *)
C1_PathLayout ==
    \A r \in Finished :
        (Succeeded(r) /\ r = run /\ spc = "done") =>
            \A i \in 1..Len(CleanTargets) :
                LET pc == CleanTargets[i].pc
                IN  /\ \A k \in 1..(Len(pc) - 1) :
                          LET q == SubSeq(pc, 1, k)
                          IN  /\ NodeAt(result[r].tree, q) # NoNode
                              /\ NodeAt(result[r].tree, q).type = "dir"
                              /\ NodeAt(result[r].tree, q).name = pc[k]
                              /\ NamesAt(result[r].tree, q) \subseteq ChildNames(q)
                    /\ NamesAt(result[r].tree, << >>) \subseteq ChildNames(<< >>)
                    /\ ArchivedCleanly(r, pc) =>
                          /\ NodeAt(result[r].tree, pc) # NoNode
                          /\ NodeAt(result[r].tree, pc).name = Last(pc)
                          /\ NodeAt(result[r].tree, pc).type = fsys[Abs(CleanTargets[i])].type

\* an absolute target /h/u was archived as /h/u, a below it
C1_Witness ==
    /\ targets = << Target(TRUE, << "h", "u" >>) >>
    /\ Succeeded(1)
    /\ NamesAt(result[1].tree, << >>) = {"h"}
    /\ NodeAt(result[1].tree, << "h", "u", "a" >>) # NoNode

-----------------------------------------------------------------------------
\* the steps of Snapshot after the walk, in the order of the code
CommitOrder == << "tree", "flush", "index", "snapshot" >>

(* C2: commit ordering.  The steps of a Snapshot call after the walk are   *)
(* the root tree, Flush, SaveIndex, the snapshot object, in this order; a  *)
(* step that fails is the last one; the snapshot object of a call is in    *)
(* the repository only after all four.                                     *)
C2_CommitOrdering ==
    /\ Len(commits) <= Len(CommitOrder)
    /\ \A i \in 1..Len(commits) :
          /\ commits[i].step = CommitOrder[i]
          /\ i < Len(commits) => commits[i].err = NoErr
    /\ (\E id \in snapshots : id.val.time = run) =>
          /\ Len(commits) = Len(CommitOrder)
          /\ \A i \in 1..Len(commits) : commits[i].err = NoErr

\* Flush failed after the root tree was stored, and Snapshot returned
C2_Witness ==
    /\ spc = "done"
    /\ Len(commits) = 2
    /\ commits[1].err = NoErr
    /\ commits[2].err # NoErr

-----------------------------------------------------------------------------
(* C3: a Snapshot call has written a snapshot object exactly if it         *)
(* returned success; the ID it returns is that of the object written, and  *)
(* the object's tree is the root tree the call stored.  A call that has    *)
(* not returned has written none.                                          *)
C3_SnapshotIffSuccess ==
    /\ \A r \in Finished :
          /\ Succeeded(r) <=> \E id \in snapshots : id.val.time = r
          /\ Succeeded(r) =>
                /\ result[r].id \in snapshots
                /\ result[r].id.val.time = r
                /\ result[r].id.val.tree = result[r].tree
                /\ [run |-> r, sn |-> << >>, id |-> result[r].tree] \in stored
                /\ result[r].tree \in index
    /\ \A id \in snapshots : id.val.time \in Finished

\* a second call failed after a first one succeeded: one snapshot object
C3_Witness ==
    /\ Len(result) = 2
    /\ Succeeded(1)
    /\ ~Succeeded(2)
    /\ Cardinality(snapshots) = 1

-----------------------------------------------------------------------------
\* every failure of call r was given to the hook and answered with nil
SwallowedOnly(r) ==
    /\ \A e \in FaultsOf(r) :
          \/ e.kind = "load"
          \/ /\ e.kind # "cancel"
             /\ \E g \in GateOf(r) : g.err = e
    /\ \A g \in GateOf(r) : g.verdict = NoErr

\* the tree of level p is part of the snapshot of call r
InSnapshot(r, p) ==
    \/ p = << >>
    \/ /\ NodeAt(result[r].tree, p) # NoNode
       /\ NodeAt(result[r].tree, p).subtree # NoID

(* C4: swallowed errors.  If every failure of a Snapshot call was an error *)
(* of one entry that the hook was given and answered with nil (failures to *)
(* load a previous tree aside), the call succeeds; an entry whose error    *)
(* the hook swallowed is not in the snapshot; and in the tree it is        *)
(* missing from, every other entry of that level that was not rejected, is *)
(* no socket and had no error of its own is present.                       *)
C4_SwallowedError ==
    \A r \in Finished :
        /\ SwallowedOnly(r) => Succeeded(r)
        /\ Succeeded(r) =>
              \A g \in GateOf(r) :
                  g.verdict = NoErr =>
                      /\ NodeAt(result[r].tree, g.sn) = NoNode
                      /\ InSnapshot(r, Parent(g.sn)) =>
                            \A n \in ChildNames(Parent(g.sn)) :
                                ArchivedCleanly(r, Parent(g.sn) \o << n >>) =>
                                    NodeAt(result[r].tree, Parent(g.sn) \o << n >>) # NoNode

\* the error of /h/u/a was swallowed: the snapshot was made, without a and
\* with its siblings b and l
C4_Witness ==
    \E g \in gate :
        /\ g.verdict = NoErr
        /\ g.sn = << "h", "u", "a" >>
        /\ Succeeded(g.run)
        /\ NodeAt(result[g.run].tree, << "h", "u", "a" >>) = NoNode
        /\ NodeAt(result[g.run].tree, << "h", "u", "b" >>) # NoNode
        /\ NodeAt(result[g.run].tree, << "h", "u", "l" >>) # NoNode

-----------------------------------------------------------------------------
\* the kinds of error of one entry
PerEntryKinds == {"open", "stat", "readdir", "read", "close"}

(* C5: the hook's verdict is final.  A Snapshot call in which the hook     *)
(* returned an error for some entry does not succeed; and without a hook   *)
(* a call in which an entry had an error does not succeed.                 *)
C5_GateVerdictFinal ==
    \A r \in Finished :
        /\ (\E g \in GateOf(r) : g.verdict # NoErr) => ~Succeeded(r)
        /\ (~opts.hook /\ \E e \in FaultsOf(r) : e.kind \in PerEntryKinds)
              => ~Succeeded(r)

\* the part of C5 about an archiver without a hook, for the entries Select
\* accepts (the error of an entry it rejects is dropped with the entry)
C5_NoHookFatal ==
    \A r \in Finished :
        (~opts.hook /\ \E e \in FaultsOf(r) :
                          e.kind \in PerEntryKinds /\ Select(e.at, NoFI))
            => ~Succeeded(r)

-----------------------------------------------------------------------------
(* C6: a failure of the repository is fatal.  A Snapshot call in which     *)
(* storing a blob, Flush or SaveIndex failed does not succeed, whatever    *)
(* the hook returns.                                                       *)
C6_RepoFailureFatal ==
    \A r \in Finished :
        (\E e \in FaultsOf(r) : e.kind = "repo") => ~Succeeded(r)

-----------------------------------------------------------------------------
-----------------------------------------------------------------------------
(* C8: the change detector.  fileChanged reports unchanged exactly if the  *)
(* previous node exists, is a file, has the FileInfo's modification time,  *)
(* has a size equal to both the FileInfo's size and the extended stat's    *)
(* size, and has the FileInfo's inode.                                     *)
C8_ChangeDetector ==
    fcOut # "none" =>
        ( fcOut = "unchanged" <=>
            /\ fcIn.node # NoNode
            /\ fcIn.node.type = "file"
            /\ fcIn.node.mtime = fcIn.fi.mtime
            /\ fcIn.node.size = fcIn.fi.size
            /\ fcIn.node.size = fcIn.fi.extsize
            /\ fcIn.node.inode = fcIn.fi.inode )

\* a file node that differs from the FileInfo in the extended stat's size
\* only was reported changed
C8_Witness ==
    /\ fcOut = "changed"
    /\ fcIn.node # NoNode
    /\ fcIn.node.type = "file"
    /\ fcIn.node.mtime = fcIn.fi.mtime
    /\ fcIn.node.size = fcIn.fi.size
    /\ fcIn.node.size # fcIn.fi.extsize
    /\ fcIn.node.inode = fcIn.fi.inode

-----------------------------------------------------------------------------
\* the call has a parent snapshot and every tree of it was loaded
ParentLoaded ==
    /\ parent # NoID
    /\ \A e \in FaultsOf(run) : e.kind \notin {"load", "cancel"}

(* C9: reuse of unchanged files.  In a call with a parent snapshot whose   *)
(* trees could all be loaded, no file that the change detector reports     *)
(* unchanged against the parent's node at the same path is handed to the   *)
(* FileSaver; a file whose previous node was reused has no FileSaver job,  *)
(* and every stored tree of its directory holds the previous node itself   *)
(* under its name.                                                         *)
C9_UnchangedReuse ==
    /\ ParentLoaded =>
          \A sn \in DOMAIN jobs :
              fileChanged(jobs[sn].fi, NodeAt(parent.val.tree, sn))
    /\ \A u \in reused :
          /\ u.run = run => u.sn \notin DOMAIN jobs
          /\ u.node = NodeAt(parent.val.tree, u.sn)
          /\ \A t \in stored :
                (t.run = u.run /\ t.sn = Parent(u.sn)) =>
                    Find(LoadTree(t.id), Last(u.sn)) = u.node

\* the second call reused the node of a, and the snapshot holds it
C9_Witness ==
    /\ Succeeded(2)
    /\ \E u \in reused :
          /\ u.sn = << "h", "u", "a" >>
          /\ NodeAt(result[2].tree, u.sn) = u.node
          /\ u.node.content = ChunkIDs(<< 1, 2 >>)

-----------------------------------------------------------------------------
\* every call so far ran with the WithAtime of the first
SameConfiguration == arch.WithAtime = opts.atime

(* C10: idempotence.  Two calls on the same repository with the same       *)
(* targets and configuration, the filesystem unchanged and nothing         *)
(* failing: both snapshots have the same root tree, and every CompleteItem *)
(* of the second call reports no new data blob and no new tree blob.       *)
C10_Idempotence ==
    (run = 2 /\ fsys = InitFS /\ faults = {} /\ SameConfiguration) =>
        /\ \A it \in items : it.run = 2 => it.stats = ZeroStats
        /\ Succeeded(2) => result[2].tree = result[1].tree

\* the second call succeeded on the unchanged filesystem, without a parent
\* snapshot, after saving a file and a directory
C10_Witness ==
    /\ Succeeded(2)
    /\ fsys = InitFS /\ faults = {} /\ SameConfiguration
    /\ parent = NoID
    /\ \E it \in items : it.run = 2 /\ it.item = << "h", "u", "a" >>
    /\ \E it \in items : it.run = 2 /\ it.item = << "h", "u" >> /\ it.dir

-----------------------------------------------------------------------------
(* The tree of a snapshot as a function of the filesystem, the targets and *)
(* the configuration.                                                      *)

\* the entry at a filesystem path gets a node: Select accepts it and it is no
\* socket
Kept(p) == Select(p, NoFI) /\ fsys[p].type # "socket"

RECURSIVE FsNode(_)
RECURSIVE FsNodes(_)

\* the node of the filesystem entry at p
FsNode(p) ==
    LET node == nodeFromFileInfo(Target(TRUE, p), FileInfo(p))
    IN  IF fsys[p].type = "file"
        THEN [node EXCEPT !.content = ChunkIDs(fsys[p].data),
                          !.size = Len(fsys[p].data)]
        ELSE IF fsys[p].type = "dir"
        THEN [node EXCEPT !.subtree = BlobID("tree", FsNodes(p))]
        ELSE node

\* the nodes of the directory at p, in the order of their names
FsNodes(p) ==
    LET names == SelectSeq(readdirnames(p), LAMBDA n : Kept(p \o << n >>))
    IN  [i \in 1..Len(names) |-> FsNode(p \o << names[i] >>)]

\* the snapshot path is a target
IsLeaf(sn) == \E i \in 1..Len(CleanTargets) : CleanTargets[i].pc = sn

\* the nodes of the snapshot's tree at sn, a level above the targets
RECURSIVE SnNodes(_)
SnNodes(sn) ==
    LET names == SelectSeq(SortNames(ChildNames(sn)),
                           LAMBDA n : IsLeaf(sn \o << n >>)
                                        => Kept(FsPath(sn \o << n >>)))
    IN  [i \in 1..Len(names) |->
           LET c == sn \o << names[i] >>
           IN  IF IsLeaf(c)
               THEN [FsNode(FsPath(c)) EXCEPT !.name = names[i]]
               ELSE [nodeFromFileInfo(Target(TRUE, FsPath(c)), FileInfo(FsPath(c)))
                       EXCEPT !.name = names[i],
                              !.subtree = BlobID("tree", SnNodes(c))]]

\* the root tree of the snapshot of the current filesystem
ExpectedRoot == BlobID("tree", SnNodes(<< >>))

(* C11: determinism.  A Snapshot call in which nothing fails returns the   *)
(* root tree that is determined by the filesystem, the targets and the     *)
(* configuration alone: the order in which SaveTree visits the children of *)
(* a path-tree node and waits for their futures, the interleaving of the   *)
(* walker with the workers and the order in which chunks are stored have   *)
(* no influence on it.  (A parent snapshot, if there is one, was made      *)
(* under the same configuration.)                                          *)
C11_Determinism ==
    (spc = "done" /\ Succeeded(run) /\ FaultsOf(run) = {} /\ SameConfiguration) =>
        result[run].tree = ExpectedRoot

\* a call with two targets below one path-tree node succeeded, nothing
\* failed, and the chunks of a were stored against the order of their offsets
C11_Witness ==
    /\ spc = "done" /\ Succeeded(run) /\ FaultsOf(run) = {}
    /\ targets = << Target(FALSE, << "u", "a" >>), Target(FALSE, << "u", ".", "b" >>) >>
    /\ DOMAIN NewTree(CleanTargets).Nodes["u"].Nodes = {"a", "b"}
    /\ << "u", "a" >> \in DOMAIN jobs
    /\ jobs[<< "u", "a" >>].got = << 2, 1 >>
    /\ result[run].tree = ExpectedRoot

-----------------------------------------------------------------------------
\* the names of a sequence of nodes ascend strictly
StrictlyAscending(nodes) ==
    \A i \in 1..Len(nodes) : \A j \in 1..Len(nodes) :
        i < j => NameLess(nodes[i].name, nodes[j].name)

(* C12: name ordering.  In every tree that was stored - by SaveDir, by     *)
(* SaveTree for an intermediate node of the path tree, by Snapshot for the *)
(* root - the names ascend strictly in bytewise order.                     *)
C12_NameOrdering ==
    \A t \in stored : StrictlyAscending(LoadTree(t.id).nodes)

\* SaveTree stored the tree of the path-tree node u with the two targets a
\* and b, a file whose future it waited for and a directory
C12_Witness ==
    /\ targets = << Target(FALSE, << "u", "a" >>), Target(FALSE, << "u", ".", "b" >>) >>
    /\ \E t \in stored :
          /\ t.sn = << "u" >>
          /\ Len(LoadTree(t.id).nodes) = 2
          /\ LoadTree(t.id).nodes[1].name = "a"
          /\ LoadTree(t.id).nodes[1].content = ChunkIDs(<< 1, 2 >>)
          /\ LoadTree(t.id).nodes[2].name = "b"

-----------------------------------------------------------------------------
\* the bytes of the chunks of a content list, one after the other
Concat(content) == [i \in 1..Len(content) |-> content[i].val]

-----------------------------------------------------------------------------
\* the snapshot paths of the items for which Save is called (a target or an
\* entry below one, not a level above the targets) and which the selector
\* rejects
RejectedItems ==
    IF opts.excl = << >> THEN {}
    ELSE LET cts == CleanTargets
             over == { i \in 1..Len(cts) : IsPrefix(Abs(cts[i]), opts.excl) }
         IN  { cts[i].pc \o SubSeq(opts.excl, Len(Abs(cts[i])) + 1, Len(opts.excl)) :
               i \in over }

\* the item at c is one of the items R or lies below one
Under(R, c) == \E r \in R : IsPrefix(r, c)

(* C14: selector prune.  An item the selector rejects when Save asks it,   *)
(* and everything below such an item: no SaveDir or Save call is ever      *)
(* running for it (a rejected directory is not read), no stored tree has a *)
(* node for it, no file below it is opened, and the FileSaver gets no job  *)
(* for it.                                                                 *)
C14_SelectorPrune ==
    LET R == RejectedItems
    IN  R # {} =>
          /\ \A i \in 1..Len(stack) :
                stack[i].k \in {"Save", "SaveDir"} => ~Under(R, stack[i].snPath)
          /\ \A t \in stored :
                \A i \in 1..Len(LoadTree(t.id).nodes) :
                    ~Under(R, t.sn \o << LoadTree(t.id).nodes[i].name >>)
          /\ \A sn \in DOMAIN jobs : ~Under(R, sn)
          /\ \A sn \in DOMAIN handles : ~Under(R, Parent(sn))

\* the target /h was archived with a selector that rejects the directory
\* /h/u: the tree of h holds the device d only and no file went to the
\* FileSaver
C14_Witness ==
    /\ targets = << Target(TRUE, << "h" >>) >>
    /\ opts.excl = << "h", "u" >>
    /\ Succeeded(1)
    /\ NamesAt(result[1].tree, << "h" >>) = {"d"}
    /\ DOMAIN jobs = {}
    /\ handles = (<< "h" >> :> 1) @@ (<< "h", "d" >> :> 1) @@ (<< "h", "u" >> :> 1)

-----------------------------------------------------------------------------
\* the sockets of the filesystem
SocketPaths == { p \in DOMAIN fsys : fsys[p].type = "socket" }

\* the names SaveDir has to put into the tree of the directory at p: its
\* entries without the sockets and the rejected ones
KeptNames(p) ==
    { Last(q) : q \in { q \in DOMAIN fsys :
                          Len(q) = Len(p) + 1 /\ IsPrefix(p, q) /\ Kept(q) } }

(* C15: socket skip.  No stored tree has a node of a socket; no error is   *)
(* given to the hook for a socket; and the tree SaveDir stores for the     *)
(* directory of a socket has a node for every other entry the selector     *)
(* accepts, unless the hook was asked about an entry of that directory.    *)
C15_SocketSkip ==
    /\ \A t \in stored :
          \A i \in 1..Len(LoadTree(t.id).nodes) :
              LoadTree(t.id).nodes[i].type # "socket"
    /\ \A g \in gate :
          /\ g.item \notin SocketPaths
          /\ g.err # CancelErr => g.err.at \notin SocketPaths
    /\ \A t \in stored :
          (t.run = run /\ Through(t.sn) = {} /\ t.sn # << >>) =>
              \A p \in SocketPaths :
                  (FsPath(t.sn) = Parent(p)
                   /\ \A g \in GateOf(run) : Parent(g.sn) # t.sn) =>
                      NamesAt(t.id, << >>) = KeptNames(Parent(p))

\* the directory /h/u with its socket s was archived: its tree holds the
\* file a, the directory b and the symlink l
C15_Witness ==
    /\ Succeeded(1)
    /\ opts.excl = << >>
    /\ \E t \in stored :
          /\ FsPath(t.sn) = << "h", "u" >>
          /\ Through(t.sn) = {}
          /\ NamesAt(t.id, << >>) = {"a", "b", "l"}
    /\ handles = (<< "h", "u" >> :> 1) @@ (<< "h", "u", "a" >> :> 1) @@
                 (<< "h", "u", "b" >> :> 1)

-----------------------------------------------------------------------------
\* the calls of Save that hold the handle of sn: Save is waiting for SaveDir
SaveOwners(sn) ==
    { i \in 1..Len(stack) : stack[i].k = "Save" /\ stack[i].snPath = sn }

\* the FileSaver jobs that hold the handle of sn: the file is not read yet
JobOwners(sn) ==
    IF sn \in DOMAIN jobs /\ jobs[sn].state \in {"queued", "running"}
    THEN {sn} ELSE {}

(* C16: file handles.  A handle Save opened is closed at most once; while  *)
(* it is open it belongs to exactly one party, the Save call that waits    *)
(* for SaveDir or one FileSaver job that has not read the file yet; once   *)
(* it is closed it belongs to nobody; and when Snapshot has returned and   *)
(* every future is resolved, no handle is open.                            *)
C16_HandleClosure ==
    /\ \A sn \in DOMAIN handles :
          /\ handles[sn] <= 1
          /\ Cardinality(SaveOwners(sn)) + Cardinality(JobOwners(sn))
               = IF handles[sn] = 0 THEN 1 ELSE 0
    /\ (spc = "done" /\ \A sn \in DOMAIN jobs : jobs[sn].state = "done")
          => OpenHandles = {}

\* Snapshot of /h failed on the directory b while the file a was with the
\* FileSaver: the walker closed the device d when Save returned and the
\* directories on its way out, the FileSaver closed a when its job was
\* cancelled
C16_Witness ==
    /\ spc = "done" /\ run = 1
    /\ result[1].err = Err("readdir", << "h", "u", "b" >>)
    /\ << "h", "u", "a" >> \in DOMAIN jobs
    /\ jobs[<< "h", "u", "a" >>].err = CancelErr
    /\ handles = (<< "h" >> :> 1) @@ (<< "h", "d" >> :> 1) @@
                 (<< "h", "u" >> :> 1) @@ (<< "h", "u", "a" >> :> 1) @@
                 (<< "h", "u", "b" >> :> 1)

-----------------------------------------------------------------------------
(* C17: the life of a future.  The future of every file handed to the      *)
(* FileSaver is resolved at most once and waited for at most once, it is   *)
(* resolved when it has been waited for, and when Snapshot returns the     *)
(* walker has waited for every one of them.                                *)
C17_FutureLifecycle ==
    /\ \A sn \in DOMAIN jobs :
          /\ jobs[sn].resolves <= 1
          /\ jobs[sn].waits <= 1
          /\ jobs[sn].waits = 1 => jobs[sn].resolves = 1
    /\ spc = "done" => \A sn \in DOMAIN jobs : jobs[sn].waits = 1

\* the part of C17 that holds: no future is resolved twice or waited for
\* twice, and none is waited for before it is resolved
C17_AtMostOnce ==
    \A sn \in DOMAIN jobs :
        /\ jobs[sn].resolves <= 1
        /\ jobs[sn].waits <= 1
        /\ jobs[sn].waits = 1 => jobs[sn].resolves = 1

-----------------------------------------------------------------------------
(* C18: cancellation safety.  When Snapshot returns the cancellation error *)
(* after the context was cancelled, every future of the FileSaver is       *)
(* resolved and no file handle is open.                                    *)
C18_CancellationSafety ==
    (spc = "done" /\ cancelled /\ result[run].err = CancelErr) =>
        /\ \A sn \in DOMAIN jobs : jobs[sn].state = "done"
        /\ OpenHandles = {}

-----------------------------------------------------------------------------
\* the names of the entries of a directory of the filesystem
Entries(dir) ==
    { Last(p) : p \in { q \in DOMAIN fsys :
                          Len(q) = Len(dir) + 1 /\ IsPrefix(dir, q) } }

\* what one target becomes: itself, or one target per entry
PieceLen(t) ==
    IF Len(Clean(t).pc) > 0 THEN 1 ELSE Cardinality(Entries(Abs(Clean(t))))

\* the number of resolved targets that stand before those of target i
RECURSIVE Before(_, _)
Before(ts, i) ==
    IF i = 1 THEN 0 ELSE Before(ts, i - 1) + PieceLen(ts[i - 1])

\* out is what the targets ts resolve to: target i, cleaned, stands where
\* the targets before it end; one without components is replaced there by
\* its directory's entries in ascending order of their names
ResolvedRight(ts, out) ==
    /\ Len(out) = Before(ts, Len(ts) + 1)
    /\ \A i \in 1..Len(ts) :
          LET c == Clean(ts[i])
              o == Before(ts, i)
              n == PieceLen(ts[i])
          IN  IF Len(c.pc) > 0
              THEN /\ out[o + 1].abs = ts[i].abs
                   /\ out[o + 1].pc = SelectSeq(ts[i].pc, LAMBDA x : x # ".")
              ELSE /\ { out[o + k].pc : k \in 1..n } =
                         { << e >> : e \in Entries(Abs(c)) }
                   /\ \A k \in 1..n : out[o + k].abs = c.abs
                   /\ \A k \in 1..n : \A l \in 1..n :
                         k < l => NameLess(out[o + k].pc[1], out[o + l].pc[1])

\* resolveRelativeTargets over every list of targets within the bounds: its
\* result is right, and its error is the one of reading a target's directory
C19_Resolved ==
    (spc = "resolved") =>
        IF ret.err = NoErr THEN ResolvedRight(targets, ret.result)
        ELSE \E i \in DotTargets(targets) :
                ret.err = Err("readdir", Abs(Clean(targets[i])))

\* a list that mixes both kinds of target was resolved
C19_ResolvedMixed ==
    /\ spc = "resolved"
    /\ targets = << Target(FALSE, << "u", ".", "b" >>), Target(FALSE, << "." >>),
                    Target(TRUE, << "h", "u" >>) >>
    /\ ret.result = << Target(FALSE, << "u", "b" >>), Target(FALSE, << "d" >>),
                       Target(FALSE, << "u" >>), Target(TRUE, << "h", "u" >>) >>

(* C19: dot expansion.  Snapshot's targets are resolved so that every      *)
(* target is cleaned, one with components keeps its place, and one without *)
(* ("." in /h) is replaced in its place by the entries of the directory in *)
(* ascending order (d, u); the root tree of a call that succeeded has only *)
(* children named by the first component of a resolved target; and a       *)
(* failure to read the directory of such a target is the error Snapshot    *)
(* returns, with nothing stored and the hook not asked.                    *)
C19_DotExpansion ==
    /\ ResolvedRight(targets, CleanTargets)
    /\ targets = << Target(FALSE, << "." >>) >> =>
          CleanTargets = << Target(FALSE, << "d" >>), Target(FALSE, << "u" >>) >>
    /\ (spc = "done" /\ Succeeded(run)) =>
          NamesAt(result[run].tree, << >>) \subseteq
              { CleanTargets[i].pc[1] : i \in 1..Len(CleanTargets) }
    /\ \A i \in DotTargets(targets) :
          Err("readdir", Abs(Clean(targets[i]))) \in FaultsOf(run) =>
              /\ run \in Finished
              /\ result[run].err = Err("readdir", Abs(Clean(targets[i])))
              /\ \A t \in stored : t.run # run
              /\ GateOf(run) = {}

\* Snapshot(["."]) in /h succeeded: the root tree has the children d and u
C19_Witness ==
    /\ targets = << Target(FALSE, << "." >>) >>
    /\ spc = "done" /\ run = 1 /\ Succeeded(1)
    /\ NamesAt(result[1].tree, << >>) = {"d", "u"}
    /\ "a" \in NamesAt(result[1].tree, << "u" >>)

-----------------------------------------------------------------------------
\* the failures of a call to load the parent's tree or a previous subtree
LoadFaults(r) == { e \in FaultsOf(r) : e.kind = "load" }

\* the snapshot paths of the regular files the walker is to archive: files
\* at or below a target with no rejected entry and no socket on the way
FileItems ==
    LET cts == CleanTargets
    IN  UNION { { cts[i].pc \o SubSeq(p, Len(Abs(cts[i])) + 1, Len(p)) :
                    p \in { q \in DOMAIN fsys :
                              /\ IsPrefix(Abs(cts[i]), q)
                              /\ fsys[q].type = "file"
                              /\ \A k \in Len(Abs(cts[i]))..Len(q) :
                                    Kept(SubSeq(q, 1, k)) } } :
                i \in 1..Len(cts) }

(* C20: best-effort parent.  A failure to load the parent's root tree or a *)
(* previous subtree is never the error of Snapshot and is never given to   *)
(* the hook; a call in which nothing else failed succeeds with the tree of *)
(* a call without such a failure; no node at or below the level whose      *)
(* previous tree could not be loaded is taken from the parent, and every   *)
(* regular file below it is handed to the FileSaver.                       *)
C20_BestEffortParent ==
    /\ \A r \in Finished : result[r].err.kind # "load"
    /\ \A g \in gate : g.err.kind # "load"
    /\ \A f \in faults : \A x \in reused :
          (f.err.kind = "load" /\ x.run = f.run) => ~IsPrefix(f.err.at, x.sn)
    /\ (spc = "done" /\ LoadFaults(run) # {} /\ LoadFaults(run) = FaultsOf(run)) =>
          /\ Succeeded(run)
          /\ SameConfiguration => result[run].tree = ExpectedRoot
          /\ \A e \in LoadFaults(run) : \A sn \in FileItems :
                IsPrefix(e.at, sn) => sn \in DOMAIN jobs

\* the second call, with the first snapshot as its parent and the file
\* unchanged, could not load the previous tree of /h/u: it succeeded, took
\* nothing from the parent and handed the file a to the FileSaver
C20_Witness ==
    /\ spc = "done" /\ run = 2 /\ Succeeded(2)
    /\ targets = << Target(TRUE, << "h" >>) >>
    /\ parent = result[1].id
    /\ fsys = InitFS
    /\ FaultsOf(2) = {Err("load", << "h", "u" >>)}
    /\ \A x \in reused : x.run # 2
    /\ << "h", "u", "a" >> \in DOMAIN jobs
    /\ jobs[<< "h", "u", "a" >>].awaited
    /\ result[2].tree = result[1].tree

-----------------------------------------------------------------------------
\* the number of files the FileSaver may read at once under the Options
\* New was given
ReadLimit ==
    IF optIn.FileReadConcurrency = 0 THEN 2 ELSE optIn.FileReadConcurrency

\* the files a worker of the FileSaver has taken and not finished
InWork == { sn \in DOMAIN jobs : jobs[sn].state \notin {"queued", "done"} }

(* C21: bounded file reads.  At any moment the workers of the FileSaver    *)
(* have at most FileReadConcurrency files in work - two when the option    *)
(* was left at zero - however many files the walker has handed over.       *)
C21_BoundedReads ==
    spc # "new" => Cardinality(InWork) <= ReadLimit

\* the option was left at zero, three files were handed over: two are being
\* read and the third waits in the queue
C21_Witness ==
    /\ optIn.FileReadConcurrency = 0
    /\ Cardinality(DOMAIN jobs) = 3
    /\ Cardinality({ sn \in DOMAIN jobs : jobs[sn].state = "running" }) = 2
    /\ Len(queue) = 1

-----------------------------------------------------------------------------
(* C22: Options.ApplyDefaults.  The Options of the archiver New made are   *)
(* those it was given, with FileReadConcurrency 2 where it was 0 and       *)
(* SaveBlobConcurrency the number of CPUs where it was 0; the Options it   *)
(* was given are as they were; and applying the defaults to a result gives *)
(* the same result.                                                        *)
C22_ApplyDefaults ==
    /\ optIn \in OptionsIn \cup {ZeroOptions}
    /\ ApplyDefaults(ApplyDefaults(optIn)) = ApplyDefaults(optIn)
    /\ spc # "new" =>
          /\ options.FileReadConcurrency =
                IF optIn.FileReadConcurrency = 0 THEN 2
                ELSE optIn.FileReadConcurrency
          /\ options.SaveBlobConcurrency =
                IF optIn.SaveBlobConcurrency = 0 THEN ncpu
                ELSE optIn.SaveBlobConcurrency
          /\ DOMAIN options = DOMAIN optIn
          /\ ApplyDefaults(options) = options

\* New was given Options with FileReadConcurrency unset and
\* SaveBlobConcurrency 1 on a machine with two CPUs
C22_Witness ==
    /\ spc = "walk"
    /\ ncpu = 2
    /\ optIn = [FileReadConcurrency |-> 0, SaveBlobConcurrency |-> 1]
    /\ options = [FileReadConcurrency |-> 2, SaveBlobConcurrency |-> 1]

-----------------------------------------------------------------------------
\* the snapshot paths of the intermediate nodes of the path tree: the
\* proper prefixes of the targets
Intermediates ==
    LET cts == CleanTargets
    IN  UNION { { SubSeq(cts[i].pc, 1, k) : k \in 1..(Len(cts[i].pc) - 1) } :
                i \in 1..Len(cts) }

\* the errors of SaveTree about the FileInfoPath of an intermediate node
FileInfoPathErrs == {"nofileinfo", "statdir", "notdir"}

(* C23: intermediate directories.  When the FileInfoPath of an             *)
(* intermediate node of the path tree is empty, cannot be stat'ed or is no *)
(* directory when SaveTree comes to it, that error is what Snapshot        *)
(* returns, without a snapshot, and the hook is never asked about it;      *)
(* otherwise the node of the intermediate directory has the metadata of    *)
(* FileInfoPath, the type dir, and as its subtree the ID of the tree that  *)
(* was stored for that level in the same call.                             *)
C23_IntermediateDirs ==
    /\ \A g \in gate : g.err.kind \notin FileInfoPathErrs
    /\ \A r \in Finished :
          result[r].err.kind \in FileInfoPathErrs => result[r].id = NoID
    /\ \A f \in faults :
          f.err.kind \in FileInfoPathErrs =>
              /\ f.run = run => spc \in {"walk", "done"}
              /\ f.run \in Finished =>
                    /\ result[f.run].err = f.err
                    /\ result[f.run].id = NoID
    /\ spc = "done" =>
          LET inter == Intermediates
          IN  \A t \in stored : \A i \in 1..Len(LoadTree(t.id).nodes) :
                 LET n == LoadTree(t.id).nodes[i]
                     c == t.sn \o << n.name >>
                 IN  (t.run = run /\ c \in inter) =>
                        /\ n = [nodeFromFileInfo(Target(TRUE, FsPath(c)),
                                                 FileInfo(FsPath(c)))
                                  EXCEPT !.name = n.name, !.subtree = n.subtree]
                        /\ n.type = "dir"
                        /\ \E u \in stored :
                              u.run = t.run /\ u.sn = c /\ u.id = n.subtree

\* with a hook set, the directory /h/u behind the intermediate node u was no
\* directory any more when SaveTree came to stat it, after the tree of the
\* level was stored: Snapshot returned that error and the hook was not asked
C23_Witness ==
    /\ spc = "done" /\ run = 1
    /\ opts.hook
    /\ targets = << Target(FALSE, << "u", "a" >>), Target(FALSE, << "u", ".", "b" >>) >>
    /\ result[1].err = Err("notdir", << "h", "u" >>)
    /\ result[1].id = NoID
    /\ GateOf(1) = {}
    /\ \E t \in stored : t.run = 1 /\ t.sn = << "u" >>

-----------------------------------------------------------------------------
\* the failures of OpenFile other than ELOOP and ENXIO in a call
OpenFaults(r) == { e \in FaultsOf(r) : e.kind = "open" }

(* C24: open errors reach the hook.  When a call has returned, every       *)
(* failure to open an entry (other than ELOOP and ENXIO) was given to      *)
(* arch.error: the hook was asked about it, or - no hook being set - it is *)
(* the error Snapshot returned; and if the call succeeded, the hook        *)
(* answered nil for it.                                                    *)
C24_OpenErrorsGated ==
    \A r \in Finished : \A e \in OpenFaults(r) :
        /\ \/ \E g \in GateOf(r) : g.err = e
           \/ result[r].err = e
        /\ Succeeded(r) => \E g \in GateOf(r) : g.err = e /\ g.verdict = NoErr

\* the part of C24 that holds: the same for the entries Select accepts
C24_SelectedOpenErrorsGated ==
    \A r \in Finished : \A e \in OpenFaults(r) :
        Select(e.at, NoFI) =>
            /\ \/ \E g \in GateOf(r) : g.err = e
               \/ result[r].err = e
            /\ Succeeded(r) => \E g \in GateOf(r) : g.err = e /\ g.verdict = NoErr

-----------------------------------------------------------------------------
\* the kinds of entry whose OpenFile fails with ELOOP or ENXIO
Unopenable == {"symlink", "socket"}

\* the names of the symbolic links in a directory that Select accepts
LinkNames(dir) ==
    { n \in Entries(dir) :
        fsys[dir \o << n >>].type = "symlink" /\ Select(dir \o << n >>, NoFI) }

\* the snapshot paths of the entries that cannot be opened
UnopenableItems ==
    LET cts == CleanTargets
    IN  UNION { { cts[i].pc \o SubSeq(p, Len(Abs(cts[i])) + 1, Len(p)) :
                    p \in { q \in DOMAIN fsys :
                              /\ fsys[q].type \in Unopenable
                              /\ IsPrefix(Abs(cts[i]), q) } } :
                i \in 1..Len(cts) }

(* C25: the ELOOP/ENXIO fallback.  Save never has a file handle for a      *)
(* symbolic link or a socket, the hook is never asked about an error of    *)
(* such an entry, and a symbolic link is never followed: every stored tree *)
(* of a directory holds, for each of its links that Select accepts, the    *)
(* node of the link's own lstat, of type symlink, without content and      *)
(* without subtree.                                                        *)
C25_LstatFallback ==
    /\ DOMAIN handles # {} => DOMAIN handles \cap UnopenableItems = {}
    /\ \A g \in gate :
          /\ fsys[g.item].type \notin Unopenable
          /\ g.err.kind \in PerEntryKinds => fsys[g.err.at].type \notin Unopenable
    /\ \A t \in stored : \A i \in 1..Len(LoadTree(t.id).nodes) :
          LoadTree(t.id).nodes[i].type = "symlink" =>
              /\ LoadTree(t.id).nodes[i].content = << >>
              /\ LoadTree(t.id).nodes[i].subtree = NoID
    /\ spc = "done" =>
          \A t \in stored :
              (t.run = run /\ t.sn # << >> /\ Through(t.sn) = {}) =>
                  \A n \in LinkNames(FsPath(t.sn)) :
                      \E i \in 1..Len(LoadTree(t.id).nodes) :
                          LoadTree(t.id).nodes[i] =
                              nodeFromFileInfo(Target(TRUE, FsPath(t.sn) \o << n >>),
                                               FileInfo(FsPath(t.sn) \o << n >>))

\* the directory /h/u was archived: its tree holds the node of the link l,
\* and no handle was opened for l or for the socket s
C25_Witness ==
    /\ spc = "done" /\ run = 1 /\ Succeeded(1)
    /\ targets = << Target(TRUE, << "h", "u" >>) >>
    /\ NodeAt(result[1].tree, << "h", "u", "l" >>) # NoNode
    /\ NodeAt(result[1].tree, << "h", "u", "l" >>).type = "symlink"
    /\ NodeAt(result[1].tree, << "h", "u", "l" >>).content = << >>
    /\ NodeAt(result[1].tree, << "h", "u", "l" >>).subtree = NoID
    /\ DOMAIN handles = { << "h", "u" >>, << "h", "u", "a" >>, << "h", "u", "b" >> }

-----------------------------------------------------------------------------
(* C26: no Close without a handle.  Save never calls Close on the file of  *)
(* an OpenFile that failed - the process does not panic on the nil file -  *)
(* and the failure of the Lstat that follows ELOOP or ENXIO is an error of *)
(* the entry: when the call has returned, the hook was asked about it or   *)
(* it is the error Snapshot returned.                                      *)
C26_NoCloseWithoutHandle ==
    /\ spc # "panic"
    /\ \A r \in Finished : \A e \in FaultsOf(r) :
          e.kind = "lstat" =>
              \/ \E g \in GateOf(r) : g.err = e
              \/ result[r].err = e

-----------------------------------------------------------------------------
\* the frames of the walker's stack
Frames == { stack[i] : i \in 1..Len(stack) }

\* the names of the nodes of a tree under construction
TreeNames(tree) == { tree.nodes[i].name : i \in 1..Len(tree.nodes) }

\* SaveDir calls Save for the entries of a directory in ascending order of
\* their names, and waits for the futures in that order
DirectoryOrder ==
    \A f \in Frames :
        f.k = "SaveDir" =>
            /\ f.name # "" =>
                  \A i \in 1..Len(f.names) : NameLess(f.name, f.names[i])
            /\ \A i \in 1..Len(f.futures) : \A n \in TreeNames(f.tree) :
                  NameLess(n, Last(f.futures[i].snPath))

\* SaveTree calls Save or SaveTree for the children of a node of the path
\* tree in ascending order of their names, and waits for the futures of the
\* leaves in that order
PathTreeOrder ==
    \A f \in Frames :
        f.k = "SaveTree" =>
            /\ f.name # "" => \A n \in f.todo : NameLess(f.name, n)
            /\ \A m \in DOMAIN f.futureNodes : \A n \in TreeNames(f.tree) :
                  f.atree.Nodes[n].Path # NoPath => NameLess(n, m)

\* the error Snapshot returned is the one of the first entry, in the order
\* of the names, among the entries of one directory that failed and whose
\* error the hook did not swallow
FirstErrorReturned ==
    (spc = "done" /\ result[run].err.kind \in PerEntryKinds) =>
        \A e \in FaultsOf(run) :
            (/\ e.kind \in PerEntryKinds
             /\ Select(e.at, NoFI)
             /\ Parent(e.at) = Parent(result[run].err.at)
             /\ \A g \in GateOf(run) : g.err = e => g.verdict # NoErr)
                => ~NameLess(Last(e.at), Last(result[run].err.at))

(* C27: walk order.  At every level - a directory of the filesystem or a   *)
(* node of the path tree - the walker takes the children in ascending      *)
(* order of their names and waits for the futures in that order, and when  *)
(* several entries of a level fail, Snapshot returns the error of the      *)
(* first of them in the order of the names.                                *)
C27_WalkOrder ==
    /\ DirectoryOrder
    /\ PathTreeOrder
    /\ FirstErrorReturned

\* the part of C27 that holds: the order within a directory of the
\* filesystem
C27_DirectoryOrder == DirectoryOrder

-----------------------------------------------------------------------------
\* the jobs of the file saver for the files of one directory
JobsIn(snPath) == { sn \in DOMAIN jobs : Parent(sn) = snPath }

(* C28: two-phase directory assembly.  Within one directory the walker     *)
(* waits for no future of a file before it has called Save for every entry *)
(* of the directory, and the tree of the directory is stored only after    *)
(* every future recorded for the directory has been waited for.            *)
C28_TwoPhase ==
    /\ \A f \in Frames :
          (f.k = "SaveDir" /\ f.names # << >>) =>
              \A sn \in JobsIn(f.snPath) : ~jobs[sn].awaited
    /\ \A s \in stored :
          s.run = run => \A sn \in JobsIn(s.sn) : jobs[sn].awaited

\* SaveDir of /h/u has called Save for a, b, l and s, has waited for the
\* future of the file a, and still holds futures to wait for
C28_Witness ==
    /\ stack # << >>
    /\ Top.k = "SaveDir" /\ Top.dir = Target(TRUE, << "h", "u" >>)
    /\ Top.names = << >> /\ Top.futures # << >>
    /\ \E sn \in JobsIn(Top.snPath) : jobs[sn].awaited

-----------------------------------------------------------------------------
\* the children of a node of the path tree that SaveTree has taken
Taken(f) == DOMAIN f.atree.Nodes \ f.todo

(* C29: snapshot-local naming.  Every node inserted into the tree of a     *)
(* node of the path tree, the node of a leaf and the directory node of an  *)
(* intermediate child alike, has as its name the key of that child in the  *)
(* path tree, whatever name its FileInfo carries.                          *)
C29_SnapshotNames ==
    \A f \in Frames :
        f.k = "SaveTree" =>
            /\ TreeNames(f.tree) \subseteq Taken(f)
            /\ spc = "names" =>
                  /\ Len(f.tree.nodes) = Cardinality(Taken(f))
                  /\ f.name # "" =>
                        /\ Find(f.tree, f.name).inode = fcIn.fi.inode
                        /\ Find(f.tree, f.name).type = fcIn.fi.type

\* the leaf a was read from a FileInfo named b and the intermediate child
\* u from a FileInfo of another name: the tree holds them as a and u
C29_Witness ==
    /\ spc = "names"
    /\ Top.todo = {}
    /\ TreeNames(Top.tree) = {"a", "u"}
    /\ Find(Top.tree, "a").type = "file"
    /\ Find(Top.tree, "u").type = "dir"
    /\ Find(Top.tree, "u").subtree # NoID
    /\ Top.name = "a" /\ fcIn.fi.name = "b"

-----------------------------------------------------------------------------
\* the trees the walker is building and the trees it has stored
TreesBuilt ==
    { f.tree : f \in { g \in Frames : g.k \in {"SaveTree", "SaveDir"} } } \cup
    { LoadTree(s.id) : s \in stored }

(* C30: subtree invariant.  In every tree the archiver builds or stores,   *)
(* each node of type dir has as its subtree the ID of a tree blob the      *)
(* repository already holds, and no node of another type has a subtree.    *)
C30_Subtrees ==
    \A t \in TreesBuilt : \A i \in 1..Len(t.nodes) :
        IF t.nodes[i].type = "dir"
        THEN /\ t.nodes[i].subtree # NoID
             /\ t.nodes[i].subtree.kind = "tree"
             /\ t.nodes[i].subtree \in index
        ELSE t.nodes[i].subtree = NoID

\* SaveDir of /h/u holds the directory node of b, whose tree is stored, next
\* to the nodes of the file a and the symlink l
C30_Witness ==
    /\ stack # << >>
    /\ Top.k = "SaveDir" /\ Top.dir = Target(TRUE, << "h", "u" >>)
    /\ Find(Top.tree, "b") # NoNode
    /\ Find(Top.tree, "b").type = "dir"
    /\ Find(Top.tree, "b").subtree \in index
    /\ Find(Top.tree, "a") # NoNode /\ Find(Top.tree, "a").subtree = NoID
    /\ Find(Top.tree, "l") # NoNode /\ Find(Top.tree, "l").subtree = NoID

-----------------------------------------------------------------------------
\* the callbacks invoked for the file at snapshot path sn in call r
CallsFor(cb, r, sn) ==
    { e \in BagToSet(calls) : e.cb = cb /\ e.run = r /\ e.item = sn }

\* how often the callbacks of a set were invoked
RECURSIVE Count(_)
Count(S) ==
    IF S = {} THEN 0
    ELSE LET e == CHOOSE x \in S : TRUE
         IN  CopiesIn(e, calls) + Count(S \ {e})

(* C31: callbacks for a reused file.  When the previous node of an         *)
(* unchanged file is reused, StartFile is never invoked for the file,      *)
(* CompleteItem is invoked exactly once for its snapshot path, with the    *)
(* previous node as previous and as current and with zero statistics, and  *)
(* CompleteBlob is invoked exactly once, with the previous node's size.    *)
C31_ReusedCallbacks ==
    \A u \in reused :
        /\ CallsFor("StartFile", u.run, u.sn) = {}
        /\ CallsFor("CompleteItem", u.run, u.sn) =
              {[cb |-> "CompleteItem", run |-> u.run, item |-> u.sn, dir |-> FALSE,
                previous |-> u.node, current |-> u.node, stats |-> ZeroStats]}
        /\ Count(CallsFor("CompleteItem", u.run, u.sn)) = 1
        /\ CallsFor("CompleteBlob", u.run, u.sn) =
              {[cb |-> "CompleteBlob", run |-> u.run, item |-> u.sn,
                bytes |-> u.node.size]}
        /\ Count(CallsFor("CompleteBlob", u.run, u.sn)) = 1

\* the second call has reused the node of /h/u/a, a file of two chunks, and
\* has returned
C31_Witness ==
    /\ run = 2 /\ spc = "done"
    /\ \E u \in reused :
          /\ u.run = 2 /\ u.sn = << "h", "u", "a" >>
          /\ u.node.size = 2
          /\ CallsFor("CompleteBlob", 2, u.sn) # {}

-----------------------------------------------------------------------------
(* C32: callbacks for a saved file.  For every file handed to the          *)
(* FileSaver, StartFile is invoked at most once and not while the job      *)
(* waits in the queue, CompleteItem is invoked at most once and only after *)
(* StartFile, and a file whose future has an error gets no CompleteItem.   *)
C32_SavedCallbacks ==
    \A sn \in DOMAIN jobs :
        /\ Count(CallsFor("StartFile", run, sn)) <= 1
        /\ jobs[sn].state = "queued" => CallsFor("StartFile", run, sn) = {}
        /\ Count(CallsFor("CompleteItem", run, sn)) <= 1
        /\ CallsFor("CompleteItem", run, sn) # {} =>
              CallsFor("StartFile", run, sn) # {}
        /\ (jobs[sn].state = "done" /\ jobs[sn].err # NoErr) =>
              CallsFor("CompleteItem", run, sn) = {}

\* a worker took the job of /h/u/a and finished it: StartFile and
\* CompleteItem were invoked once each, with the node of the job
C32_Witness ==
    /\ << "h", "u", "a" >> \in DOMAIN jobs
    /\ jobs[<< "h", "u", "a" >>].state = "done"
    /\ jobs[<< "h", "u", "a" >>].err = NoErr
    /\ Count(CallsFor("StartFile", run, << "h", "u", "a" >>)) = 1
    /\ \E e \in CallsFor("CompleteItem", run, << "h", "u", "a" >>) :
          e.current = jobs[<< "h", "u", "a" >>].node

-----------------------------------------------------------------------------
\* the CompleteItem calls of call r
Completed(r) == { e \in BagToSet(calls) : e.cb = "CompleteItem" /\ e.run = r }

\* the CompleteItem calls of call r for the root, "/"
RootCompleted(r) == { e \in Completed(r) : e.item = << >> }

\* the tree of the directory a CompleteItem call is about: the subtree of
\* its node, or the root tree the call stored
TreeOfCall(e) ==
    IF e.current # NoNode THEN {LoadTree(e.current.subtree)}
    ELSE { LoadTree(s.id) : s \in { t \in stored : t.run = e.run /\ t.sn = << >> } }

\* CompleteItem was invoked for a directory: it was invoked before for every
\* entry of the directory's tree whose type is one of types
EntriesCompleted(types) ==
    \A r \in 1..run : \A e \in Completed(r) :
        e.dir =>
            \A t \in TreeOfCall(e) : \A i \in 1..Len(t.nodes) :
                t.nodes[i].type \in types =>
                    \E c \in Completed(r) :
                        /\ c.item = e.item \o << t.nodes[i].name >>
                        /\ c.dir = (t.nodes[i].type = "dir")

\* CompleteItem("/") is invoked at most once in a call, after the root tree
\* is stored and before Flush
RootCompletedOnce ==
    /\ \A r \in 1..run : Count(RootCompleted(r)) <= 1
    /\ RootCompleted(run) # {} => \E s \in stored : s.run = run /\ s.sn = << >>
    /\ (\E i \in 1..Len(commits) : commits[i].step = "flush") =>
          Count(RootCompleted(run)) = 1

\* a step after CompleteItem("/") invokes no CompleteItem of the same call
RootCompletedLast ==
    [][RootCompleted(run) # {} /\ run' = run =>
          \A e \in { c \in BagToSet(calls') : c.cb = "CompleteItem" /\ c.run = run } :
              CopiesIn(e, calls') = CopiesIn(e, calls)]_vars

\* the types a node can have
NodeTypes == {"file", "dir", "symlink", "dev", "socket"}

(* C33: bottom-up completion.  CompleteItem is invoked for a directory     *)
(* only after it was invoked for every entry of the directory's stored     *)
(* tree, and CompleteItem("/") is invoked exactly once, after the root     *)
(* tree is stored, before Flush, and after every other CompleteItem of the *)
(* call.                                                                   *)
C33_BottomUp ==
    /\ [](EntriesCompleted(NodeTypes) /\ RootCompletedOnce)
    /\ RootCompletedLast

\* the part of C33 that holds: the files and directories of a directory's
\* tree are completed before the directory, and CompleteItem("/") is
\* invoked once, between the root tree and Flush
C33_FilesAndDirsFirst == EntriesCompleted({"file", "dir"}) /\ RootCompletedOnce

-----------------------------------------------------------------------------
(* C34: CompleteItem means included.  When a Snapshot call has succeeded,  *)
(* every snapshot path for which CompleteItem was invoked in the call is   *)
(* in the tree of the snapshot, at that path.                              *)
C34_CompletedIncluded ==
    (spc = "done" /\ Succeeded(run)) =>
        \A e \in Completed(run) :
            e.item # << >> => NodeAt(result[run].tree, e.item) # NoNode

-----------------------------------------------------------------------------
\* the repository holds everything a node refers to: the chunks of a file,
\* the tree of a directory and all that this tree refers to
RECURSIVE RefsStored(_)
RefsStored(node) ==
    /\ \A i \in 1..Len(node.content) : node.content[i] \in index
    /\ node.type = "dir" =>
          /\ node.subtree \in index
          /\ \A i \in 1..Len(node.subtree.val) : RefsStored(node.subtree.val[i])

(* C35: referential integrity at commit.  When the snapshot object of a    *)
(* call is in the repository, the repository holds the root tree and every *)
(* tree blob and data blob a node of the snapshot refers to; and no node is *)
(* in a tree under construction while the repository lacks one of its      *)
(* chunks or its job still has chunks to store.                            *)
C35_ReferentialIntegrity ==
    /\ \A id \in snapshots :
          /\ id.val.tree \in index
          /\ \A i \in 1..Len(id.val.tree.val) : RefsStored(id.val.tree.val[i])
    /\ \A t \in TreesBuilt : \A i \in 1..Len(t.nodes) : RefsStored(t.nodes[i])
    /\ \A f \in Frames :
          f.k \in {"SaveTree", "SaveDir"} =>
              \A sn \in JobsIn(f.snPath) :
                 Find(f.tree, Last(sn)) # NoNode =>
                     /\ jobs[sn].state = "done"
                     /\ jobs[sn].pending = {}
                     /\ jobs[sn].resolves = 1

\* the snapshot object of the first call is stored; its tree holds the
\* directory u with the file a of two chunks, saved in this call
C35_Witness ==
    /\ run = 1 /\ spc = "done" /\ Succeeded(1)
    /\ result[1].id \in snapshots
    /\ NodeAt(result[1].tree, << "h", "u", "a" >>) # NoNode
    /\ Len(NodeAt(result[1].tree, << "h", "u", "a" >>).content) = 2
    /\ NodeAt(result[1].tree, << "h", "u", "b" >>) # NoNode

-----------------------------------------------------------------------------
\* the WithAtime of call r: the first call ran with the configured one
WithAtimeOf(r) == IF r = run THEN arch.WithAtime ELSE opts.atime

\* the nodes of the trees call r stored
EmittedNodes(r) ==
    UNION { { t.id.val[i] : i \in DOMAIN t.id.val } :
              t \in { x \in stored : x.run = r } }

\* the filesystem entry a node of call r was made from, while the
\* filesystem is the one the call saw
StatOf(node) ==
    { FileInfo(p) : p \in { q \in DOMAIN fsys : fsys[q].inode = node.inode } }

(* C39: access time.  Every node of every tree stored by a call that ran   *)
(* without WithAtime has its access time equal to its modification time,   *)
(* the nodes reused from the parent snapshot included; every node of a     *)
(* tree stored by a call with WithAtime has the access time of its stat.   *)
C39_AccessTime ==
    \A r \in 1..run : \A node \in EmittedNodes(r) :
        IF WithAtimeOf(r)
        THEN r = run => \A fi \in StatOf(node) : node.atime = fi.atime
        ELSE node.atime = node.mtime

\* the nodes a call without WithAtime made itself carry the modification
\* time as their access time
C39_FreshNodes ==
    \A r \in 1..run : \A node \in EmittedNodes(r) :
        (~WithAtimeOf(r) /\ \A u \in reused : u.run = r => u.node # node)
            => node.atime = node.mtime
-----------------------------------------------------------------------------
\* one of Repo, Select and FS is not set
Incomplete(a) == ~(a.Repo /\ a.Select /\ a.FS)

\* the error Valid has for the caller's archiver
MissingErr(a) == Valid([a EXCEPT !.blobSaver = TRUE, !.fileSaver = TRUE])

\* neither the filesystem nor the repository was used
Untouched ==
    /\ index = {} /\ snapshots = {} /\ stored = {} /\ commits = << >>
    /\ handles = << >> /\ jobs = << >> /\ faults = {}
    /\ calls = EmptyBag /\ items = {}

(* C40: validation before use.  A Snapshot call on an archiver whose Repo, *)
(* Select or FS is not set returns the Valid error for the missing field,  *)
(* and no worker pool was started and neither the filesystem nor the       *)
(* repository was used.                                                    *)
C40_ValidationBeforeUse ==
    (Incomplete(arch) /\ spc # "start") =>
        /\ spc = "done"
        /\ result[run].err = MissingErr(arch)
        /\ ~arch.blobSaver /\ ~arch.fileSaver
        /\ Untouched

\* with Repo set, the call returns the Valid error for the missing Select
\* or FS and has used neither the filesystem nor the repository's content
C40_ValidErrorWithRepo ==
    (Incomplete(arch) /\ arch.Repo /\ spc # "start") =>
        /\ spc = "done"
        /\ result[run].err = MissingErr(arch)
        /\ Untouched
-----------------------------------------------------------------------------
\* a job of the FileSaver ended with the cancellation of its context
Cancelled(j) == j.state = "done" /\ j.err = CancelErr

-----------------------------------------------------------------------------
\* a file worker has a chunk it cannot hand over
ChunkBlocked(sn) ==
    jobs[sn].state = "running" /\ NextChunk(sn) <= Len(DataOf(sn)) /\ ~BlobQueueFree

\* the walker cannot go on: the FileSaver or the BlobSaver does not accept,
\* or the future it waits for is not resolved
WalkerBlocked ==
    /\ spc = "walk"
    /\ Top.k = "SaveDir" =>
          IF ~AllDispatched(Top) THEN ~FileQueueFree
          ELSE IF ~AllAwaited(Top) THEN jobs[Head(Top.futures)].state # "done"
          ELSE ~BlobQueueFree
    /\ Top.k = "saveTree" => ret = NoRet

\* a blob worker can take a blob or has one to store
BlobWorkerRuns ==
    blobs.work # {} \/ (blobs.queue # << >> /\ BlobWorkerFree)

\* a file worker can take a job, hand over a chunk, or finish its file
FileWorkerRuns ==
    \/ queue # << >> /\ WorkerFree
    \/ \E sn \in Busy :
          \/ jobs[sn].state = "running" /\ ~ChunkBlocked(sn)
          \/ jobs[sn].state = "saving" /\ jobs[sn].pending = {}

\* not everyone is blocked while the call has not returned
NeverAllBlocked ==
    spc = "walk" => (~WalkerBlocked \/ FileWorkerRuns \/ BlobWorkerRuns)

(* C36: deadlock freedom.  With the context never cancelled and every      *)
(* operation returning, for every number of file workers and of blob       *)
(* workers from one on and every bound of the two queues, the walker, the  *)
(* file workers and the blob workers are never all blocked at once, and    *)
(* the call eventually returns.                                            *)
C36_DeadlockFreedom == []NeverAllBlocked /\ <>(spc = "done")

\* the walker cannot hand over its next file, every file worker has a
\* chunk it cannot hand over, and only the blob workers can go on
C36_Witness ==
    /\ spc = "walk" /\ WalkerBlocked /\ ~AllDispatched(Top)
    /\ Cardinality(Busy) = options.FileReadConcurrency
    /\ \A sn \in Busy : ChunkBlocked(sn)
    /\ ~FileWorkerRuns
    /\ BlobWorkerRuns
====
